---- MODULE Spec2Model ----
(***************************************************************************)
(* lvmcryo: the LN2 purge/fill engine.                                     *)
(*                                                                         *)
(* The model follows src/lvmcryo: ValveHandler (handlers/valve.py),        *)
(* ThermistorHandler and ThermistorMonitor (handlers/thermistor.py),       *)
(* LN2Handler (handlers/ln2.py), ln2_runner / fill_runner / signal_handler *)
(* (runner.py) and ensure_lock (tools.py).                                 *)
(*                                                                         *)
(* Scheduling is asyncio's: one event loop, tasks run atomically from one  *)
(* await to the next.  Every action below is such a stretch of code.  A    *)
(* command sent to the NPS is split in two: the stretch up to the wire     *)
(* (script cancel, e-stop check) and the stretch that runs on the reply.   *)
(* Time is a discrete clock in seconds; a task whose sleep has expired     *)
(* runs before the clock advances again, and so does a reply of the NPS.   *)
(***************************************************************************)
EXTENDS Integers, Sequences, FiniteSets, TLC

\* ---------------------------------------------------------------- bounds
MaxTime    == 90   \* horizon of the clock
MaxEvents  == 2    \* disturbances the world outside may cause in one run
MaxOpen    == 3    \* the configured max_purge_time / max_fill_time
MaxColdAfter == 4  \* seconds after which a warm thermistor stays warm

\* ------------------------------------------------------ program constants
Epoch               == 1    \* time() and datetime.now() are positive
SleepBeforeTimeout  == 2    \* start_fill: await asyncio.sleep(2)
AlertsInterval      == 3    \* monitor_alerts: await asyncio.sleep(3)
PhaseSlack          == 60   \* fill_runner: timeout = max_..._time + 60
MonitoringInterval  == 1    \* ThermistorConfig.monitoring_interval
KbStopSleep         == 1    \* purge/fill finally: await asyncio.sleep(1)

None == -1

Valves  == {"purge", "c1", "c2"}
Callers == {"alerts", "keys", "signal", "signal2", "final", "fill"}

VARIABLES
    now,      \* the clock
    events,   \* disturbances so far
    estop,    \* an LN2 e-stop is active
    nps_up,   \* the NPS actors execute commands
    cfg,      \* the Config of the run
    nps,      \* the NPS: outlet states, armed scripts, next thread id
    offLog,   \* per valve: who has put an off command on the wire
    vh,       \* ValveHandler fields, per valve
    th,       \* ThermistorHandler fields and the watcher task, per valve
    tmo,      \* the _schedule_timeout task, per valve
    sf,       \* the start_fill coroutine, per valve
    mon,      \* the ThermistorMonitor singleton
    stp,      \* LN2Handler.stop calls in flight, per caller
    al,       \* the monitor_alerts task
    h,        \* LN2Handler: failed, aborted, error, event_times
    m,        \* the main task: ln2_runner / fill_runner / purge / fill
    lk,       \* the lockfile and the processes that use ensure_lock
    gh        \* history kept for the properties, per valve

envVars   == <<now, events, estop, nps_up>>
valveVars == <<vh, th, tmo, sf, mon>>
vars == <<now, events, estop, nps_up, cfg, nps, offLog,
          vh, th, tmo, sf, mon, stp, al, h, m, lk, gh>>

Abs(x) == IF x < 0 THEN -x ELSE x

Cameras == cfg.cameras

\* LN2Handler.__post_init__: one ValveHandler per camera plus the purge valve.
Handlers == cfg.cameras \cup {"purge"}

\* ------------------------------------------------------------ NPS driver
\* cancel_nps_threads: "scripts stop {thread_id if thread_id else ''}";
\* without an id the NPS stops every script.
CancelNpsThreads(scripts, thread_id) ==
    IF thread_id = None \/ thread_id = 0
    THEN [v \in Valves |-> None]
    ELSE [v \in Valves |-> IF scripts[v] = thread_id THEN None ELSE scripts[v]]

\* ValveHandler._set_state, first half: the cached script is cancelled.
\* cancel_nps_threads does not look at the reply, so it raises only when
\* the actor cannot be reached at all.
MustCancel(v) == vh[v].thread_id # None /\ ~cfg.dry_run

CancelOutcomes(v) ==
    IF MustCancel(v) /\ ~nps_up THEN {"raise", "ignored"}
    ELSE IF MustCancel(v) THEN {"ok"} ELSE {"skip"}

ScriptsAfterCancel(v, outcome) ==
    IF outcome = "ok" THEN CancelNpsThreads(nps.script, vh[v].thread_id)
    ELSE nps.script

\* valve_on_off up to the wire: the e-stop check comes first; with a timeout
\* and use_script the outlet id is asked from the NPS (outlet_info).
ReachesWire(on, outcome) ==
    /\ outcome # "raise"
    /\ ~estop
    /\ (on => nps_up)

\* valve_on_off on the wire: dry_run returns before the command is sent.
CommandOk == cfg.dry_run \/ nps_up

\* Who may put an off command on the wire.
Causes == Callers \cup {"thermistor", "timeout", "presweep"}

LogOff(v, cause) ==
    IF cfg.dry_run THEN offLog ELSE [offLog EXCEPT ![v] = @ \cup {cause}]

\* --------------------------------------------------------- ValveHandler
NewValveHandler ==
    [thread_id |-> None, open_time |-> None, close_time |-> None,
     active |-> FALSE, timed_out |-> FALSE, event |-> FALSE]

NoThermistor ==
    [pc |-> "none", wake |-> 0, start_time |-> 0, last_seen |-> 0,
     active_start_time |-> 0, first_active |-> None, active |-> FALSE]

NoTask == [pc |-> "none", wake |-> 0]

\* A fill() that passes close_on_active=True whatever require_all_thermistors
\* says: every watcher closes its own valve.
CloseOnActiveAlways(v) == TRUE

\* start_fill(close_on_active): purge() uses the default, fill() passes
\* not require_all_thermistors.
CloseOnActive(v) == IF v = "purge" THEN TRUE ELSE ~cfg.require_all

\* A close that forgets the timed_out flag.
ClosedValveUnmarked(r, did_timeout) ==
    [r EXCEPT !.close_time = now]

\* A close that records no close_time.
ClosedValveUnstamped(r, did_timeout) ==
    [r EXCEPT !.timed_out = (@ \/ did_timeout)]

\* _set_state(False, did_timeout), second half: the bookkeeping of a close.
ClosedValve(r, did_timeout) ==
    [r EXCEPT !.timed_out = (@ \/ did_timeout), !.close_time = now]

\* _set_state(True), second half: the bookkeeping of an open.
OpenedValve(r, thread_id) ==
    [r EXCEPT !.thread_id = IF thread_id # None THEN thread_id ELSE @,
              !.open_time = now]

\* cancel_task: a task that is None or done is left alone.
Live(task) == task.pc \in {"sleep", "closing"}
CancelTask(task) ==
    IF Live(task) THEN [task EXCEPT !.pc = "cancelled", !.wake = 0] ELSE task

\* The same for the watcher, whose locals go with it.
CancelWatcher(t) ==
    IF Live(t)
    THEN [t EXCEPT !.pc = "cancelled", !.wake = 0, !.start_time = 0,
                   !.last_seen = 0, !.active_start_time = 0]
    ELSE t

\* finish(), after the close: both watchers are cancelled (a task that
\* cancels itself swallows the cancellation and goes on), active is
\* cleared and the event is set.
FinishedValve(r) == [r EXCEPT !.active = FALSE, !.event = TRUE]

\* ------------------------------------------------------ ThermistorMonitor
\* ThermistorMonitor.start: a worker is created unless one is running.  The
\* worker reads at once and then every interval.
MonitorStart(mn) ==
    IF mn.pc = "sleep" THEN mn ELSE [mn EXCEPT !.pc = "sleep", !.wake = now]

\* ThermistorMonitor.stop: the worker is cancelled, the data are kept.
MonitorStop(mn) ==
    IF mn.pc = "sleep" THEN [mn EXCEPT !.pc = "done"] ELSE mn

Alive == m.pc # "terminated"

\* The channels somebody is watching; the others read inactive.
Watched == {v \in Valves : th[v].pc = "sleep"}

\* The readings the thermistors may give: LN2 reaches a thermistor within
\* MaxColdAfter seconds of its watcher starting or not at all; a thermistor
\* that reads active may go on doing so.
MayRead(v) ==
    \/ now - th[v].start_time <= MaxColdAfter
    \/ mon.has /\ mon.ts >= th[v].start_time /\ v \in mon.act

Readings == SUBSET {v \in Watched : MayRead(v)}

\* ThermistorMonitor._monitor: read_thermistors(), append, sleep(interval).
MonSample ==
    /\ Alive
    /\ mon.pc = "sleep" /\ mon.wake <= now
    /\ \E act \in Readings :
          mon' = [mon EXCEPT !.has = TRUE, !.ts = now, !.act = act,
                             !.wake = now + MonitoringInterval]
    /\ UNCHANGED <<envVars, cfg, nps, offLog, vh, th, tmo, sf, stp, al, h, m, lk, gh>>

\* ------------------------------------------------- ValveHandler.start_fill
\* start_fill up to the wire of _set_state(True, timeout=max_open_time).
SfOpenIssue(v) ==
    /\ Alive
    /\ sf[v].pc = "start"
    /\ \E o \in CancelOutcomes(v) :
          /\ nps' = [nps EXCEPT !.script = ScriptsAfterCancel(v, o)]
          /\ sf' = [sf EXCEPT ![v].pc =
                       IF ReachesWire(TRUE, o) THEN "opening" ELSE "failed"]
    /\ UNCHANGED <<envVars, cfg, offLog, vh, th, tmo, mon, stp, al, h, m, lk, gh>>

\* ThermistorHandler.__post_init__ and the first stretch of
\* start_monitoring: start_time = time(), thermistor_monitor.start().
StartedThermistor ==
    [pc |-> "sleep", wake |-> now + MonitoringInterval, start_time |-> now,
     last_seen |-> 0, active_start_time |-> 0, first_active |-> None,
     active |-> FALSE]

\* start_fill from the reply of the on command to asyncio.sleep(2).
SfOpenReply(v) ==
    /\ Alive
    /\ sf[v].pc = "opening"
    /\ IF CommandOk
       THEN LET id == IF cfg.dry_run THEN 0 ELSE nps.next IN
            /\ nps' = IF cfg.dry_run THEN nps
                      ELSE [nps EXCEPT !.on[v] = TRUE, !.script[v] = id,
                                       !.next = @ + 1]
            /\ vh' = [vh EXCEPT ![v] = OpenedValve(@, id)]
            /\ th' = IF cfg.use_thermistors
                     THEN [th EXCEPT ![v] = StartedThermistor] ELSE th
            /\ mon' = IF cfg.use_thermistors THEN MonitorStart(mon) ELSE mon
            /\ sf' = [sf EXCEPT ![v] = [pc |-> "sleep",
                                        wake |-> now + SleepBeforeTimeout]]
       ELSE /\ sf' = [sf EXCEPT ![v].pc = "failed"]
            /\ UNCHANGED <<nps, vh, th, mon>>
    /\ UNCHANGED <<envVars, cfg, offLog, tmo, stp, al, h, m, lk, gh>>

\* start_fill after the sleep: the timeout task is created, active is set,
\* the event is cleared and awaited.
SfWake(v) ==
    /\ Alive
    /\ sf[v].pc = "sleep" /\ sf[v].wake <= now
    /\ tmo' = [tmo EXCEPT ![v] = [pc |-> "sleep", wake |-> now + cfg.max_open]]
    /\ vh' = [vh EXCEPT ![v].active = TRUE, ![v].event = FALSE]
    /\ sf' = [sf EXCEPT ![v].pc = "wait"]
    /\ UNCHANGED <<envVars, cfg, nps, offLog, th, mon, stp, al, h, m, lk, gh>>

\* start_fill returns once the event is set.
SfDone(v) ==
    /\ Alive
    /\ sf[v].pc = "wait" /\ vh[v].event
    /\ sf' = [sf EXCEPT ![v].pc = "done"]
    /\ UNCHANGED <<envVars, cfg, nps, offLog, vh, th, tmo, mon, stp, al, h, m, lk, gh>>

\* ------------------------------------- ThermistorHandler.start_monitoring
\* start_monitoring is over: its locals are gone, the fields active and
\* first_active stay.
EndedThermistor(t, pc) ==
    [t EXCEPT !.pc = pc, !.wake = 0, !.start_time = 0, !.last_seen = 0,
              !.active_start_time = 0]

\* A streak that an inactive reading does not reset.
NextActiveStartKept(active_start_time, th_data) ==
    IF th_data /\ active_start_time <= 0 THEN now ELSE active_start_time

\* The active streak: an active reading starts it, an inactive one resets it.
NextActiveStart(active_start_time, th_data) ==
    IF th_data
    THEN IF active_start_time <= 0 THEN now ELSE active_start_time
    ELSE 0

\* An exit condition that does not look at min_open_time.
WatcherExitAnyTime(active_start_time, elapsed_active, elapsed_running) ==
    /\ active_start_time > 0
    /\ elapsed_active > cfg.required_active

\* The exit condition of the loop.
WatcherExit(active_start_time, elapsed_active, elapsed_running) ==
    /\ active_start_time > 0
    /\ elapsed_active > cfg.required_active
    /\ elapsed_running > cfg.min_open

\* A watcher that takes whatever data point is the last for news.
FreshAlways(last_seen) == mon.has

\* A data point is consumed when its timestamp differs from the last seen.
Fresh(last_seen) == mon.has /\ Abs(mon.ts - last_seen) > 0

\* History: the time at which the present streak of consumed active
\* readings began (0 without one), told from the readings alone, and
\* whether an inactive reading has ever ended a streak.
StreakAfter(streak, fresh, th_data) ==
    IF ~fresh THEN streak
    ELSE IF ~th_data THEN 0
    ELSE IF streak = 0 THEN now ELSE streak

\* One round of the loop: sleep(monitoring_interval) has expired.  On exit
\* the watcher calls finish(close_valve) and runs it up to the wire.
ThTick(v) ==
    /\ Alive
    /\ th[v].pc = "sleep" /\ th[v].wake <= now
    /\ LET t == th[v]
           elapsed_running == now - t.start_time
           fresh   == Fresh(t.last_seen)
           th_data == v \in mon.act
           ast     == IF fresh
                      THEN NextActiveStart(t.active_start_time, th_data)
                      ELSE t.active_start_time
           elapsed_active == now - ast
           reached == fresh /\ th_data /\ elapsed_active > cfg.required_active
           exit    == fresh /\ th_data
                        /\ WatcherExit(ast, elapsed_active, elapsed_running)
           t1 == [t EXCEPT !.last_seen = IF fresh THEN mon.ts ELSE @,
                           !.active_start_time = ast,
                           !.first_active =
                               IF reached /\ @ = None THEN now ELSE @]
       IN
       /\ gh' = [gh EXCEPT ![v].streak = IF exit THEN 0
                                         ELSE StreakAfter(@, fresh, th_data),
                           ![v].reset = @ \/ (fresh /\ ~th_data
                                                /\ gh[v].streak > 0)]
       /\ IF ~exit
          THEN /\ th' = [th EXCEPT ![v] =
                            [t1 EXCEPT !.wake = now + MonitoringInterval]]
               /\ UNCHANGED <<nps, offLog, vh, tmo>>
          ELSE IF CloseOnActive(v)
          THEN /\ \E o \in CancelOutcomes(v) :
                     /\ nps' = [nps EXCEPT !.script = ScriptsAfterCancel(v, o)]
                     /\ IF ReachesWire(FALSE, o)
                        THEN /\ th' = [th EXCEPT ![v] =
                                  [t1 EXCEPT !.active = TRUE, !.pc = "closing"]]
                             /\ offLog' = LogOff(v, "thermistor")
                        ELSE /\ th' = [th EXCEPT ![v] =
                                  EndedThermistor([t1 EXCEPT !.active = TRUE], "failed")]
                             /\ UNCHANGED offLog
               /\ UNCHANGED <<vh, tmo>>
          ELSE /\ th' = [th EXCEPT ![v] =
                            EndedThermistor([t1 EXCEPT !.active = TRUE], "done")]
               /\ vh' = [vh EXCEPT ![v] = FinishedValve(@)]
               /\ tmo' = [tmo EXCEPT ![v] = CancelTask(@)]
               /\ UNCHANGED <<nps, offLog>>
    /\ UNCHANGED <<envVars, cfg, sf, mon, stp, al, h, m, lk>>

\* finish(close_valve=True) of the watcher, from the reply of the off command.
ThCloseReply(v) ==
    /\ Alive
    /\ th[v].pc = "closing"
    /\ IF CommandOk
       THEN /\ nps' = IF cfg.dry_run THEN nps ELSE [nps EXCEPT !.on[v] = FALSE]
            /\ vh' = [vh EXCEPT ![v] = FinishedValve(ClosedValve(@, FALSE))]
            /\ tmo' = [tmo EXCEPT ![v] = CancelTask(@)]
            /\ th' = [th EXCEPT ![v] = EndedThermistor(@, "done")]
       ELSE /\ th' = [th EXCEPT ![v] = EndedThermistor(@, "failed")]
            /\ UNCHANGED <<nps, vh, tmo>>
    /\ UNCHANGED <<envVars, cfg, offLog, sf, mon, stp, al, h, m, lk, gh>>

\* _schedule_timeout: sleep(timeout) has expired; finish(did_timeout=True)
\* runs up to the wire.
TmoFire(v) ==
    /\ Alive
    /\ tmo[v].pc = "sleep" /\ tmo[v].wake <= now
    /\ \E o \in CancelOutcomes(v) :
          /\ nps' = [nps EXCEPT !.script = ScriptsAfterCancel(v, o)]
          /\ IF ReachesWire(FALSE, o)
             THEN /\ tmo' = [tmo EXCEPT ![v].pc = "closing"]
                  /\ offLog' = LogOff(v, "timeout")
             ELSE /\ tmo' = [tmo EXCEPT ![v].pc = "failed"]
                  /\ UNCHANGED offLog
    /\ UNCHANGED <<envVars, cfg, vh, th, sf, mon, stp, al, h, m, lk, gh>>

\* finish(did_timeout=True), from the reply of the off command.
TmoCloseReply(v) ==
    /\ Alive
    /\ tmo[v].pc = "closing"
    /\ IF CommandOk
       THEN /\ nps' = IF cfg.dry_run THEN nps ELSE [nps EXCEPT !.on[v] = FALSE]
            /\ vh' = [vh EXCEPT ![v] = FinishedValve(ClosedValve(@, TRUE))]
            /\ th' = [th EXCEPT ![v] = CancelWatcher(@)]
            /\ tmo' = [tmo EXCEPT ![v].pc = "done"]
       ELSE /\ tmo' = [tmo EXCEPT ![v].pc = "failed"]
            /\ UNCHANGED <<nps, vh, th>>
    /\ UNCHANGED <<envVars, cfg, offLog, sf, mon, stp, al, h, m, lk, gh>>

\* ---------------------------------------------------------- LN2Handler
MaxNFailed == 10   \* monitor_alerts: if n_failed >= 10

IdleStop == [pc |-> "idle", kind |-> "none", sub |-> [v \in Valves |-> "na"]]

\* fail(): the flag and fail_time; every caller here passes an error text
\* or re-raises itself.
Failed(hr) ==
    [hr EXCEPT !.failed = TRUE, !.event_times.fail_time = now]

\* An abort() that starts the record of failures afresh.
AbortedAfresh(hr) ==
    [hr EXCEPT !.aborted = TRUE, !.failed = FALSE,
               !.event_times.abort_time = now, !.event_times.fail_time = None]

\* abort(), before stop(): the flag and abort_time.
Aborted(hr) ==
    [hr EXCEPT !.aborted = TRUE, !.event_times.abort_time = now]

\* The scripts left after the cached ids of the valves in T were cancelled.
CancelSet(T) ==
    IF \E v \in T : MustCancel(v) /\ vh[v].thread_id = 0
    THEN [v \in Valves |-> None]
    ELSE [v \in Valves |->
            IF \E w \in T : MustCancel(w) /\ nps.script[v] = vh[w].thread_id
            THEN None ELSE nps.script[v]]

StopCancelOutcomes(T) ==
    IF (\E v \in T : MustCancel(v)) /\ ~nps_up THEN {"raise", "ignored"}
    ELSE {"ok"}

\* stop(close_valves, only_active): finish() is gathered over the valves
\* that are active (or over all of them); each finish runs up to the wire,
\* or to its end when the valve is not to be closed.
StopBegin(c, kind, close_valves, only_active, base) ==
    LET T == {v \in Handlers : vh[v].active \/ ~only_active} IN
    IF close_valves
    THEN \E o \in StopCancelOutcomes(T) :
            LET reach(v) == ReachesWire(FALSE, IF MustCancel(v) THEN o ELSE "skip")
            IN
            /\ nps' = [nps EXCEPT !.script = IF o = "ok" THEN CancelSet(T) ELSE @]
            /\ offLog' = [v \in Valves |->
                            IF v \in T /\ reach(v) /\ ~cfg.dry_run
                            THEN offLog[v] \cup {c} ELSE offLog[v] \ {c}]
            /\ stp' = [base EXCEPT ![c] =
                         [pc |-> "run", kind |-> kind,
                          sub |-> [v \in Valves |->
                                     IF v \notin T THEN "na"
                                     ELSE IF reach(v) THEN "inflight"
                                     ELSE "failed"]]]
            /\ UNCHANGED <<vh, th, tmo>>
    ELSE /\ vh' = [v \in Valves |-> IF v \in T THEN FinishedValve(vh[v]) ELSE vh[v]]
         /\ th' = [v \in Valves |-> IF v \in T THEN CancelWatcher(th[v]) ELSE th[v]]
         /\ tmo' = [v \in Valves |-> IF v \in T THEN CancelTask(tmo[v]) ELSE tmo[v]]
         /\ stp' = [base EXCEPT ![c] =
                      [pc |-> "run", kind |-> kind,
                       sub |-> [v \in Valves |-> IF v \in T THEN "done" ELSE "na"]]]
         /\ UNCHANGED <<nps, offLog>>

\* One gathered finish(close_valve=True), from the reply of the off command.
\* The close-all at the end of fill() gathers _set_state(False) instead.
StopReply(c, v) ==
    /\ Alive
    /\ stp[c].pc = "run" /\ stp[c].sub[v] = "inflight"
    /\ IF CommandOk
       THEN /\ nps' = IF cfg.dry_run THEN nps ELSE [nps EXCEPT !.on[v] = FALSE]
            /\ vh' = [vh EXCEPT ![v] = IF c = "fill" THEN ClosedValve(@, FALSE)
                                        ELSE FinishedValve(ClosedValve(@, FALSE))]
            /\ th' = [th EXCEPT ![v] = IF c = "fill" THEN @ ELSE CancelWatcher(@)]
            /\ tmo' = [tmo EXCEPT ![v] = IF c = "fill" THEN @ ELSE CancelTask(@)]
            /\ stp' = [stp EXCEPT ![c].sub[v] = "done"]
       ELSE /\ stp' = [stp EXCEPT ![c].sub[v] = "failed"]
            /\ UNCHANGED <<nps, vh, th, tmo>>
    /\ UNCHANGED <<envVars, cfg, offLog, sf, mon, al, h, m, lk, gh>>

\* stop() has gathered every finish; it raises if one of them raised.
StopDone(c)   == stp[c].pc = "run" /\ \A v \in Valves : stp[c].sub[v] # "inflight"
StopRaised(c) == \E v \in Valves : stp[c].sub[v] = "failed"

\* clear(): the keyboard listener is stopped and the alerts task cancelled,
\* together with the stop() it may be in.
ClearedAlerts(a) ==
    IF a.pc \in {"dead", "cancelled"} THEN a ELSE [a EXCEPT !.pc = "cancelled"]

ClearedStops(s) == [s EXCEPT !["alerts"] = IdleStop]

\* ------------------------------------------------------- monitor_alerts
O2Results == IF events < cfg.max_events THEN {"clear", "alarm", "error"} ELSE {"clear"}

\* The o2_alert() poll; an alarm starts abort(close_valves=True).
\* o2_errors is the number of o2_alert() calls in a row that have raised.
AlertsPollO2 ==
    /\ Alive
    /\ al.pc = "sleep" /\ al.wake <= now
    /\ \E r \in O2Results :
          /\ events' = IF r = "clear" THEN events ELSE events + 1
          /\ IF r = "alarm"
             THEN /\ h' = Aborted(h)
                  /\ StopBegin("alerts", "o2", TRUE, FALSE, stp)
                  /\ al' = [al EXCEPT !.pc = "abort", !.o2_errors = 0]
             ELSE /\ al' = [al EXCEPT !.pc = "estop",
                                      !.n_failed = IF r = "error" THEN @ + 1 ELSE 0,
                                      !.o2_errors = IF r = "error" THEN @ + 1 ELSE 0]
                  /\ UNCHANGED <<h, nps, offLog, vh, th, tmo, stp>>
    /\ UNCHANGED <<now, estop, nps_up, cfg, sf, mon, m, lk, gh>>

\* The ln2_estops() poll; an active e-stop starts abort(close_valves=False).
\* Without one the loop goes on to the n_failed check and the sleep.
AlertsPollEstop ==
    /\ Alive
    /\ al.pc = "estop"
    /\ IF estop
       THEN /\ h' = Aborted(h)
            /\ StopBegin("alerts", "estop", FALSE, FALSE, stp)
            /\ al' = [al EXCEPT !.pc = "abort"]
       ELSE IF al.n_failed >= MaxNFailed
       THEN /\ h' = Aborted(h)
            /\ StopBegin("alerts", "n", TRUE, FALSE, stp)
            /\ al' = [al EXCEPT !.pc = "abort"]
       ELSE /\ al' = [al EXCEPT !.pc = "sleep", !.wake = now + AlertsInterval]
            /\ UNCHANGED <<h, nps, offLog, vh, th, tmo, stp>>
    /\ UNCHANGED <<envVars, cfg, sf, mon, m, lk, gh>>

\* abort() after stop(): fail(error, raise_error=False), unless stop raised.
\* The exception of the o2 abort is caught as a read error, that of the
\* e-stop abort is logged, that of the n_failed abort ends the task.
AlertsAbortEnd ==
    /\ Alive
    /\ al.pc = "abort" /\ StopDone("alerts")
    /\ h' = IF StopRaised("alerts") THEN h ELSE Failed(h)
    /\ stp' = [stp EXCEPT !["alerts"] = IdleStop]
    /\ al' = CASE stp["alerts"].kind = "o2" ->
                    [al EXCEPT !.pc = "estop",
                               !.n_failed = IF StopRaised("alerts") THEN @ + 1 ELSE 0]
               [] stp["alerts"].kind = "estop" ->
                    [al EXCEPT !.pc = "count"]
               [] OTHER ->
                    IF StopRaised("alerts") THEN [al EXCEPT !.pc = "dead"]
                    ELSE [al EXCEPT !.pc = "sleep", !.wake = now + AlertsInterval]
    /\ UNCHANGED <<envVars, cfg, nps, offLog, vh, th, tmo, sf, mon, m, lk, gh>>

\* The n_failed check after an e-stop abort.
AlertsCount ==
    /\ Alive
    /\ al.pc = "count"
    /\ IF al.n_failed >= MaxNFailed
       THEN /\ h' = Aborted(h)
            /\ StopBegin("alerts", "n", TRUE, FALSE, stp)
            /\ al' = [al EXCEPT !.pc = "abort"]
       ELSE /\ al' = [al EXCEPT !.pc = "sleep", !.wake = now + AlertsInterval]
            /\ UNCHANGED <<h, nps, offLog, vh, th, tmo, stp>>
    /\ UNCHANGED <<envVars, cfg, sf, mon, m, lk, gh>>

\* The coroutines a phase waits for.
PhaseValves(phase) == IF phase = "purge" THEN {"purge"} ELSE Cameras

PhaseOver(phase) ==
    \/ \A v \in PhaseValves(phase) : sf[v].pc = "done"
    \/ \E v \in PhaseValves(phase) : sf[v].pc = "failed"

\* ------------------------------------------------------ the event loop
\* The wake-up times of the sleeping tasks and the deadline of wait_for.
Timers ==
    {sf[v].wake : v \in {w \in Valves : sf[w].pc = "sleep"}}
    \cup {th[v].wake : v \in {w \in Valves : th[w].pc = "sleep"}}
    \cup {tmo[v].wake : v \in {w \in Valves : tmo[w].pc = "sleep"}}
    \cup (IF mon.pc = "sleep" THEN {mon.wake} ELSE {})
    \cup (IF al.pc = "sleep" THEN {al.wake} ELSE {})
    \cup (IF m.pc \in {"purge_fin", "fill_fin"} THEN {m.wake} ELSE {})
    \cup (IF m.pc \in {"purge_wait", "fill_wait"} THEN {m.deadline} ELSE {})

MinOf(S) == CHOOSE x \in S : \A y \in S : x <= y

\* A command is with the NPS and its reply is awaited.
InFlight ==
    \/ \E v \in Valves : \/ sf[v].pc = "opening"
                         \/ th[v].pc = "closing"
                         \/ tmo[v].pc = "closing"
    \/ \E c \in Callers, v \in Valves :
          stp[c].pc = "run" /\ stp[c].sub[v] = "inflight"

\* Some task is ready to run.
Ready ==
    \/ \E v \in Valves : \/ sf[v].pc = "start"
                         \/ sf[v].pc = "wait" /\ vh[v].event
    \/ \E c \in Callers : StopDone(c)
    \/ al.pc \in {"estop", "count"}
    \/ m.pc \in {"lock", "check", "presweep", "purge_pre", "fill_pre",
                 "success", "finally"}
    \/ m.pc = "purge_wait" /\ PhaseOver("purge")
    \/ m.pc = "fill_wait" /\ PhaseOver("fill")
    \/ m.pc \in {"purge_wait", "fill_wait"} /\ m.cancelled

\* Every task is asleep or waits for a reply: the moments at which the
\* world outside is seen to act.
Quiet == ~Ready /\ \A t \in Timers : t > now

\* --------------------------------------------------- _kb_monitor callbacks
Keys == {"x", "enter"}

\* monitor_keys: "x" aborts with close_valves=True, "enter" stops the
\* active valves.  The last key and the phase it came in are kept for the
\* properties.
KeyPress(k) ==
    /\ Alive
    /\ Quiet
    /\ m.listening /\ events < cfg.max_events /\ stp["keys"].pc = "idle"
    /\ events' = events + 1
    /\ IF k = "x"
       THEN /\ h' = Aborted(h)
            /\ StopBegin("keys", "abort", TRUE, FALSE, stp)
       ELSE /\ h' = h
            /\ StopBegin("keys", "stop", TRUE, TRUE, stp)
    /\ m' = [m EXCEPT !.key = k,
                      !.key_phase = IF m.pc = "purge_wait" THEN "purge"
                                    ELSE "fill"]
    /\ UNCHANGED <<now, estop, nps_up, cfg, sf, mon, al, lk, gh>>

\* monitor_keys returns: abort() ends with fail(raise_error=False) unless
\* stop() raised.
KeysEnd ==
    /\ Alive
    /\ StopDone("keys")
    /\ h' = IF stp["keys"].kind = "abort" /\ ~StopRaised("keys")
            THEN Failed(h) ELSE h
    /\ stp' = [stp EXCEPT !["keys"] = IdleStop]
    /\ UNCHANGED <<envVars, cfg, nps, offLog, vh, th, tmo, sf, mon, al, m, lk, gh>>

\* ensure_lock, leaving the block: lockfile.unlink().
Unlocked(l, mr) == IF mr.locked THEN [l EXCEPT !.file = FALSE] ELSE l

\* ------------------------------------------------- runner.signal_handler
\* The signal_handler tasks there may be at once: add_signal_handler
\* creates a task for every SIGINT / SIGTERM that arrives.
SignalTasks == {"signal", "signal2"}

\* SIGINT / SIGTERM with the handlers registered: a signal_handler task is
\* created, the flags are set and stop(only_active=False) begins.  The
\* signals received and the tasks created are counted for the properties.
Signal ==
    /\ Alive
    /\ Quiet
    /\ m.signals /\ events < cfg.max_events
    /\ \E c \in SignalTasks :
          /\ stp[c].pc = "idle"
          /\ c = "signal2" => stp["signal"].pc # "idle"
          /\ StopBegin(c, "signal", TRUE, FALSE, stp)
    /\ events' = events + 1
    /\ h' = [h EXCEPT !.failed = TRUE, !.aborted = TRUE]
    /\ m' = [m EXCEPT !.sigs = @ + 1, !.sig_tasks = @ + 1]
    /\ UNCHANGED <<now, estop, nps_up, cfg, sf, mon, al, lk, gh>>

\* signal_handler after stop(): clear(), the three event times, the loop
\* is stopped and sys.exit(1).  ln2_runner stays suspended inside the
\* "with ensure_lock" block; the unlink() of the lock runs only if the
\* interpreter finalizes the suspended coroutine on its way out.
SignalEnd ==
    /\ Alive
    /\ \E c \in SignalTasks :
          /\ StopDone(c)
          /\ stp' = [ClearedStops(stp) EXCEPT ![c].pc = "over"]
    /\ lk' \in {lk, Unlocked(lk, m)}
    /\ al' = ClearedAlerts(al)
    /\ h' = [h EXCEPT !.event_times.fail_time = now,
                      !.event_times.abort_time = now,
                      !.event_times.end_time = now]
    /\ m' = [m EXCEPT !.pc = "terminated", !.listening = FALSE, !.exit = "signal"]
    /\ UNCHANGED <<envVars, cfg, nps, offLog, vh, th, tmo, sf, mon, gh>>

\* A signal nobody handles while the lock is held: SIGHUP at any time
\* (cli_coro registers nothing without a shutdown_func), SIGINT or SIGTERM
\* before fill_runner has registered its handlers.  The process ends where
\* it stands.
SignalUnhandled ==
    /\ Alive
    /\ Quiet
    /\ m.locked /\ events < cfg.max_events
    /\ events' = events + 1
    /\ m' = [m EXCEPT !.pc = "terminated", !.listening = FALSE,
                      !.exit = "killed", !.sigs = @ + 1]
    /\ UNCHANGED <<now, estop, nps_up, cfg, nps, offLog, vh, th, tmo, sf, mon,
                   stp, al, h, lk, gh>>

\* ------------------------------------------------- the caller of ln2_runner
\* The task that runs ln2_runner is cancelled while purge() or fill() waits
\* for its valves: CancelledError is thrown into the wait.
UpstreamCancel ==
    /\ Alive
    /\ Quiet
    /\ m.pc \in {"purge_wait", "fill_wait"} /\ ~m.cancelled
    /\ events < cfg.max_events
    /\ events' = events + 1
    /\ m' = [m EXCEPT !.cancelled = TRUE]
    /\ UNCHANGED <<now, estop, nps_up, cfg, nps, offLog, vh, th, tmo, sf, mon,
                   stp, al, h, lk, gh>>

\* ------------------------------------------------------------ environment
\* Somebody presses an LN2 e-stop.
PressEstop ==
    /\ Alive
    /\ Quiet
    /\ ~estop /\ events < cfg.max_events
    /\ estop' = TRUE
    /\ events' = events + 1
    /\ UNCHANGED <<now, nps_up, cfg, nps, offLog, vh, th, tmo, sf, mon,
                   stp, al, h, m, lk, gh>>

\* The NPS actor stops answering.
NpsDown ==
    /\ Alive
    /\ Quiet
    /\ nps_up /\ events < cfg.max_events
    /\ nps_up' = FALSE
    /\ events' = events + 1
    /\ UNCHANGED <<now, estop, cfg, nps, offLog, vh, th, tmo, sf, mon,
                   stp, al, h, m, lk, gh>>

\* ---------------------------------------------------------- validate_fill
\* The post-fill data: samples by time, each with the LN2 temperature of
\* the cameras.  Temperatures are integers from 0 to MaxTemp.
MaxTemp == 2

\* The data collected after end_time the temperature check asks for.
ExtraTime == 180

\* The columns temp_<camera>_ln2 of the data.
DataCams == Valves \ {"purge"}

Temps == 0..MaxTemp

\* The data with samples at the times T.
Datasets(T) == [T -> [DataCams -> Temps]]

\* ln2_temp.sort(time): the first and the last row.
FirstTime(d) == CHOOSE t \in DOMAIN d : \A u \in DOMAIN d : t <= u

LastTime(d) == CHOOSE t \in DOMAIN d : \A u \in DOMAIN d : u <= t

\* The temperature check on every column, whether the camera was filled
\* or not.
ValidateFillAllColumns(event_times, cameras, increase, d) ==
    /\ event_times.fill_start # None /\ event_times.fill_complete # None
    /\ ~(LastTime(d) - event_times.end_time < ExtraTime)
    /\ \E c \in DataCams :
          /\ d[LastTime(d)][c] > d[FirstTime(d)][c]
          /\ d[LastTime(d)][c] > d[FirstTime(d)][c] + increase

\* validate_fill on data that is not empty: the first element of the
\* tuple it returns.  The loop over the columns breaks at the first
\* camera of the run that fails.
ValidateFill(event_times, cameras, increase, d) ==
    /\ event_times.fill_start # None /\ event_times.fill_complete # None
    /\ ~(LastTime(d) - event_times.end_time < ExtraTime)
    /\ \E c \in DataCams \cap cameras :
          /\ d[LastTime(d)][c] > d[FirstTime(d)][c]
          /\ d[LastTime(d)][c] > d[FirstTime(d)][c] + increase

\* ln2_runner calls validate_fill: a failed validation sets handler.failed.
Validate ==
    /\ m.pc = "validate"
    /\ LET failed == ValidateFill(h.event_times, cfg.cameras,
                                  cfg.max_temperature_increase, m.data)
       IN /\ m' = [m EXCEPT !.pc = "validated", !.validate_failed = failed]
          /\ h' = IF failed THEN [h EXCEPT !.failed = TRUE] ELSE h
    /\ UNCHANGED <<envVars, cfg, nps, offLog, vh, th, tmo, sf, mon, stp, al,
                   lk, gh>>

\* ------------------------------------------- ln2_runner / fill_runner
Actions == {"purge-and-fill", "purge", "fill"}

\* ln2_runner, "except Exception": handler.failed = True, skip_finally =
\* True, and LN2RunnerError goes on to the finally block.
RunnerExcept(mr) ==
    [mr EXCEPT !.pc = "finally", !.error = TRUE, !.skip_finally = TRUE,
               !.locked = FALSE, !.listening = FALSE]

\* ln2_runner with CancelledError on its way out: "except Exception" does
\* not catch it, so the flags stay as they are; the lock is left and the
\* finally block runs.
RunnerCancelled(mr) ==
    [mr EXCEPT !.pc = "finally", !.error = TRUE, !.locked = FALSE,
               !.listening = FALSE]

\* ensure_lock, entering the block: exists() and touch().  A lockfile that
\* is there raises LockExistsError, which skips to the finally block.
RunnerLock ==
    /\ Alive
    /\ m.pc = "lock"
    /\ IF lk.file
       THEN /\ m' = [m EXCEPT !.pc = "finally", !.error = TRUE,
                              !.skip_finally = TRUE, !.conflict = TRUE]
            /\ lk' = lk
       ELSE /\ m' = [m EXCEPT !.pc = "check", !.locked = TRUE]
            /\ lk' = [lk EXCEPT !.file = TRUE]
    /\ UNCHANGED <<envVars, cfg, nps, offLog, vh, th, tmo, sf, mon, stp, al, h, gh>>

\* LN2Handler.check: a failed check calls fail() and raises.  The valves
\* must be reachable and closed; the other readings are the environment's.
CheckResults ==
    IF ~nps_up \/ \E v \in Handlers : nps.on[v] THEN {"fail"}
    ELSE IF events < cfg.max_events THEN {"pass", "fail"} ELSE {"pass"}

\* A check() whose failure is logged and not raised: the run goes on.
CheckFailureLogged(mr) ==
    [mr EXCEPT !.pc = "presweep", !.signals = TRUE, !.check = "fail"]

\* check() with a check that does not pass: fail(error) has set the flag
\* and the time and raises RuntimeError, which ln2_runner catches.
CheckFailure(mr) == [RunnerExcept(mr) EXCEPT !.check = "fail"]

\* fill_runner: handler.check(), then the signal handlers are registered.
RunnerCheck ==
    /\ Alive
    /\ m.pc = "check"
    /\ \E r \in CheckResults :
          IF r = "pass"
          THEN /\ m' = [m EXCEPT !.pc = "presweep", !.signals = TRUE,
                                 !.check = "pass"]
               /\ UNCHANGED <<events, h, lk>>
          ELSE /\ events' = IF nps_up THEN events + 1 ELSE events
               /\ h' = Failed(h)
               /\ m' = CheckFailure(m)
               /\ lk' = Unlocked(lk, m)
    /\ UNCHANGED <<now, estop, nps_up, cfg, nps, offLog, vh, th, tmo, sf,
                   mon, stp, al, gh>>

\* A runner that goes to the fill whether or not the action has a purge.
PhaseAfterNoPurge(phase) ==
    IF phase # "fill" /\ cfg.action # "purge" THEN "fill_pre" ELSE "success"

\* What comes after a phase: the aborted/failed gate calls clear() and
\* raises; otherwise the next phase or the successful end.
PhaseAfter(phase) ==
    IF phase = "start" /\ cfg.action # "fill" THEN "purge_pre"
    ELSE IF phase # "fill" /\ cfg.action # "purge" THEN "fill_pre"
    ELSE "success"

\* A sweep over the valves of the run only.
CloseRunValves(log) ==
    [v \in Valves |-> IF v \in Handlers THEN log[v] \cup {"presweep"}
                      ELSE log[v]]

\* close_all_valves: valve_on_off(actor, outlet, False) is gathered over
\* every valve of valve_info; each puts its off command on the wire.
CloseAllValves(log) == [v \in Valves |-> log[v] \cup {"presweep"}]

\* fill_runner: close_all_valves() before the action, then the first gate.
\* valve_on_off raises at once when an e-stop is active.  Whether the
\* sweep returned or raised is kept for the properties.
RunnerPresweep ==
    /\ Alive
    /\ m.pc = "presweep"
    /\ IF estop \/ ~CommandOk
       THEN /\ offLog' = IF estop \/ cfg.dry_run THEN offLog
                         ELSE CloseAllValves(offLog)
            /\ m' = [RunnerExcept(m) EXCEPT !.presweep = "raised"]
            /\ h' = [h EXCEPT !.failed = TRUE]
            /\ lk' = Unlocked(lk, m)
            /\ UNCHANGED <<nps, al, stp>>
       ELSE /\ offLog' = IF cfg.dry_run THEN offLog
                         ELSE CloseAllValves(offLog)
            /\ nps' = IF cfg.dry_run THEN nps
                      ELSE [nps EXCEPT !.on = [v \in Valves |-> FALSE]]
            /\ IF h.failed \/ h.aborted
               THEN /\ al' = ClearedAlerts(al)
                    /\ stp' = ClearedStops(stp)
                    /\ m' = [RunnerExcept(m) EXCEPT !.presweep = "ok"]
                    /\ h' = [h EXCEPT !.failed = TRUE]
                    /\ lk' = Unlocked(lk, m)
               ELSE /\ m' = [m EXCEPT !.pc = PhaseAfter("start"),
                                      !.presweep = "ok"]
                    /\ UNCHANGED <<al, stp, h, lk>>
    /\ UNCHANGED <<envVars, cfg, vh, th, tmo, sf, mon, gh>>

\* purge() up to start_fill: purge_start, the keyboard prompt, preopen_cb.
PurgeBegin ==
    /\ Alive
    /\ m.pc = "purge_pre"
    /\ h' = [h EXCEPT !.event_times.purge_start = now]
    /\ m' = [m EXCEPT !.pc = "purge_wait", !.listening = cfg.prompt,
                      !.deadline = now + cfg.max_open + PhaseSlack]
    /\ sf' = [sf EXCEPT !["purge"].pc = "start"]
    /\ UNCHANGED <<envVars, cfg, nps, offLog, vh, th, tmo, mon, stp, al, lk, gh>>

\* fill() up to the gather of the start_fill coroutines: fill_start.
FillBegin ==
    /\ Alive
    /\ m.pc = "fill_pre"
    /\ h' = [h EXCEPT !.event_times.fill_start = now]
    /\ m' = [m EXCEPT !.pc = "fill_wait", !.listening = cfg.prompt,
                      !.deadline = now + cfg.max_open + PhaseSlack]
    /\ sf' = [v \in Valves |-> IF v \in Cameras
                               THEN [sf[v] EXCEPT !.pc = "start"] ELSE sf[v]]
    /\ UNCHANGED <<envVars, cfg, nps, offLog, vh, th, tmo, mon, stp, al, lk, gh>>

\* wait_for(..., timeout): the coroutines still running are cancelled;
\* nothing cancels the watchers they have created.
CancelledFills(phase) ==
    [v \in Valves |->
        IF v \in PhaseValves(phase) /\ sf[v].pc \in {"start", "opening", "sleep", "wait"}
        THEN [sf[v] EXCEPT !.pc = "cancelled"] ELSE sf[v]]

\* The tail of the finally block of purge() and fill(): the completion
\* time, the prompt is closed, sleep(1) when there was one.
PhaseTail(mr, phase, raising) ==
    [mr EXCEPT !.pc = IF phase = "purge" THEN "purge_fin" ELSE "fill_fin",
               !.raising = raising, !.listening = FALSE,
               !.wake = IF cfg.prompt THEN now + KbStopSleep ELSE now]

\* A completion stamped with the time the run started.
CompletedAtStart(hr, phase) ==
    IF phase = "purge"
    THEN [hr EXCEPT !.event_times.purge_complete = hr.event_times.start_time]
    ELSE [hr EXCEPT !.event_times.fill_complete = hr.event_times.start_time]

\* The completion time of a phase, stamped in its finally block.
Completed(hr, phase) ==
    IF phase = "purge" THEN [hr EXCEPT !.event_times.purge_complete = now]
    ELSE [hr EXCEPT !.event_times.fill_complete = now]

\* purge() / fill() from the end of start_fill (or the timeout of wait_for)
\* into the finally block.  An exception calls fail() first.  With
\* use_thermistors and require_all_thermistors fill() first closes every
\* valve with _set_state(False).
PhaseEnd(phase) ==
    /\ Alive
    /\ m.pc = (IF phase = "purge" THEN "purge_wait" ELSE "fill_wait")
    /\ PhaseOver(phase) \/ m.deadline <= now \/ m.cancelled
    /\ LET ok == \A v \in PhaseValves(phase) : sf[v].pc = "done"
           raised == \E v \in PhaseValves(phase) : sf[v].pc = "failed"
           h1 == IF raised THEN Failed(h) ELSE h
       IN
       /\ sf' = IF PhaseOver(phase) THEN sf ELSE CancelledFills(phase)
       /\ IF phase = "fill" /\ cfg.use_thermistors /\ cfg.require_all
          THEN /\ StopBegin("fill", "closeall", TRUE, FALSE, stp)
               /\ h' = h1
               /\ m' = [m EXCEPT !.pc = "fill_close", !.raising = ~ok]
          ELSE /\ h' = Completed(h1, phase)
               /\ m' = PhaseTail(m, phase, ~ok)
               /\ UNCHANGED <<nps, offLog, stp, vh, th, tmo>>
    /\ UNCHANGED <<envVars, cfg, mon, al, lk, gh>>

\* fill(), after the close-all: a _set_state that raised leaves the finally
\* block at once; otherwise fill_complete and the tail.
FillCloseEnd ==
    /\ Alive
    /\ m.pc = "fill_close" /\ StopDone("fill")
    /\ stp' = [stp EXCEPT !["fill"] = IdleStop]
    /\ IF StopRaised("fill")
       THEN /\ m' = RunnerExcept(m)
            /\ h' = [h EXCEPT !.failed = TRUE]
            /\ lk' = Unlocked(lk, m)
       ELSE /\ m' = PhaseTail(m, "fill", m.raising)
            /\ h' = Completed(h, "fill")
            /\ lk' = lk
    /\ UNCHANGED <<envVars, cfg, nps, offLog, vh, th, tmo, sf, mon, al, gh>>

\* The end of purge() / fill() and the gate of fill_runner behind it.
PhaseFin(phase) ==
    /\ Alive
    /\ m.pc = (IF phase = "purge" THEN "purge_fin" ELSE "fill_fin")
    /\ m.wake <= now
    /\ mon' = MonitorStop(mon)
    /\ IF m.cancelled
       THEN /\ m' = RunnerCancelled(m)
            /\ lk' = Unlocked(lk, m)
            /\ UNCHANGED <<al, stp, h>>
       ELSE IF m.raising
       THEN /\ m' = RunnerExcept(m)
            /\ h' = [h EXCEPT !.failed = TRUE]
            /\ lk' = Unlocked(lk, m)
            /\ UNCHANGED <<al, stp>>
       ELSE IF h.failed \/ h.aborted
       THEN /\ al' = ClearedAlerts(al)
            /\ stp' = ClearedStops(stp)
            /\ m' = RunnerExcept(m)
            /\ h' = [h EXCEPT !.failed = TRUE]
            /\ lk' = Unlocked(lk, m)
       ELSE /\ m' = [m EXCEPT !.pc = PhaseAfter(phase)]
            /\ UNCHANGED <<al, stp, h, lk>>
    /\ UNCHANGED <<envVars, cfg, nps, offLog, vh, th, tmo, sf, gh>>

\* The end of fill_runner: clear(), end_time; ln2_runner then checks
\* handler.failed and leaves the lock.
RunnerSuccess ==
    /\ Alive
    /\ m.pc = "success"
    /\ al' = ClearedAlerts(al)
    /\ stp' = ClearedStops(stp)
    /\ h' = [h EXCEPT !.event_times.end_time = now]
    /\ m' = IF h.failed THEN RunnerExcept(m)
            ELSE [m EXCEPT !.pc = "finally", !.locked = FALSE, !.listening = FALSE]
    /\ lk' = Unlocked(lk, m)
    /\ UNCHANGED <<envVars, cfg, nps, offLog, vh, th, tmo, sf, mon, gh>>

\* ln2_runner, the finally block: the signal handlers are removed,
\* end_time, clear(), and the final stop(only_active=False,
\* close_valves=True) begins.
RunnerFinally ==
    /\ Alive
    /\ m.pc = "finally"
    /\ h' = [h EXCEPT !.event_times.end_time = now]
    /\ al' = ClearedAlerts(al)
    /\ StopBegin("final", "final", TRUE, FALSE, ClearedStops(stp))
    /\ m' = [m EXCEPT !.pc = "sweep", !.signals = FALSE, !.listening = FALSE]
    /\ UNCHANGED <<envVars, cfg, sf, mon, lk, gh>>

\* The post-fill data validate_fill may read: two samples, one at the end
\* of the run and one data_extra_time later.
ExitData(end_time) == Datasets({end_time, end_time + ExtraTime})

\* The final stop() has returned or raised (the error is only logged).
\* With skip_finally the error goes straight on to the caller.  Otherwise
\* the record is written and, when there is data to validate and no error,
\* validate_fill has the last word: a failed validation sets
\* handler.failed and is the error that is raised.  A CancelledError that
\* was on its way goes on after the block.
RunnerExit ==
    /\ Alive
    /\ m.pc = "sweep" /\ StopDone("final")
    /\ stp' = [stp EXCEPT !["final"].pc = "over"]
    /\ IF m.skip_finally
       THEN /\ m' = [m EXCEPT !.pc = "terminated", !.exit = "error"]
            /\ h' = h
       ELSE \E write_data \in BOOLEAN, d \in ExitData(h.event_times.end_time) :
              LET validate_failed ==
                      /\ write_data
                      /\ ValidateFill(h.event_times, cfg.cameras,
                                      cfg.max_temperature_increase, d)
              IN
              /\ h' = [h EXCEPT !.failed = h.failed \/ validate_failed]
              /\ m' = [m EXCEPT
                         !.pc = "terminated",
                         !.validate_failed = validate_failed,
                         !.record = IF validate_failed THEN "error"
                                    ELSE "complete",
                         !.exit = IF validate_failed THEN "error"
                                  ELSE IF m.cancelled THEN "cancelled"
                                  ELSE "ok"]
    /\ UNCHANGED <<envVars, cfg, nps, offLog, vh, th, tmo, sf, mon, al, lk, gh>>

\* ------------------------------------------------------------- the clock
\* Time passes to the next wake-up once every task sleeps.  It does not
\* pass an expired timer, a task that is ready to run or a reply of the
\* NPS: a reply comes within the second, though other tasks and the world
\* outside may act before it.
Tick ==
    /\ Alive
    /\ Quiet /\ ~InFlight
    /\ Timers # {}
    /\ now' = MinOf(Timers)
    /\ now' <= MaxTime
    /\ UNCHANGED <<events, estop, nps_up, cfg, nps, offLog, vh, th, tmo, sf,
                   mon, stp, al, h, m, lk, gh>>

\* ------------------------------------------------------------ ensure_lock
\* The processes that may run ln2_runner against the same lockfile.
Procs == {"p1", "p2", "p3"}

\* ln2_runner: "if lockfile_path.exists() and config.clear_lock".
LockClearCheck(p) ==
    /\ lk.pc[p] = "start"
    /\ lk' = [lk EXCEPT !.pc[p] = IF lk.file /\ lk.clear[p] THEN "clearing"
                                  ELSE "enter"]
    /\ UNCHANGED <<envVars, cfg, nps, offLog, vh, th, tmo, sf, mon, stp, al, h, m, gh>>

\* ln2_runner: lockfile_path.unlink() for --clear-lock.
LockClearUnlink(p) ==
    /\ lk.pc[p] = "clearing"
    /\ lk' = IF lk.file THEN [lk EXCEPT !.file = FALSE, !.pc[p] = "enter"]
             ELSE [lk EXCEPT !.pc[p] = "FileNotFoundError"]
    /\ UNCHANGED <<envVars, cfg, nps, offLog, vh, th, tmo, sf, mon, stp, al, h, m, gh>>

\* ensure_lock: "if lockfile.exists(): raise LockExistsError".
LockExists(p) ==
    /\ lk.pc[p] = "enter"
    /\ lk' = [lk EXCEPT !.pc[p] = IF lk.file THEN "LockExistsError" ELSE "touch"]
    /\ UNCHANGED <<envVars, cfg, nps, offLog, vh, th, tmo, sf, mon, stp, al, h, m, gh>>

\* ensure_lock: lockfile.touch(), then the block runs.
LockTouch(p) ==
    /\ lk.pc[p] = "touch"
    /\ lk' = [lk EXCEPT !.file = TRUE, !.pc[p] = "inblock"]
    /\ UNCHANGED <<envVars, cfg, nps, offLog, vh, th, tmo, sf, mon, stp, al, h, m, gh>>

\* ensure_lock, finally: lockfile.unlink(), which raises when the file is
\* not there any more.
LockUnlink(p) ==
    /\ lk.pc[p] = "inblock"
    /\ lk' = IF lk.file THEN [lk EXCEPT !.file = FALSE, !.pc[p] = "released"]
             ELSE [lk EXCEPT !.pc[p] = "FileNotFoundError"]
    /\ UNCHANGED <<envVars, cfg, nps, offLog, vh, th, tmo, sf, mon, stp, al, h, m, gh>>

\* ------------------------------------------------------ the state machine
\* The configurations of a run: a timed purge and fill with the prompt, a
\* purge and a fill on thermistor feedback, and a fill of two cameras that
\* waits for all thermistors.  max_events is the number of disturbances
\* the run may meet: the fewer, the more the run itself may vary.
TimedConfig ==
    [action |-> "purge-and-fill", cameras |-> {"c1"}, require_all |-> FALSE,
     use_thermistors |-> FALSE, prompt |-> TRUE, dry_run |-> FALSE,
     min_open |-> 0, max_open |-> MaxOpen, required_active |-> 0,
     max_temperature_increase |-> 0, max_events |-> MaxEvents]

PurgeConfig ==
    [TimedConfig EXCEPT !.action = "purge", !.use_thermistors = TRUE,
                        !.prompt = FALSE, !.min_open = 3,
                        !.max_events = MaxEvents - 1]

FillConfig ==
    [PurgeConfig EXCEPT !.action = "fill", !.min_open = 0,
                        !.required_active = 1]

BarrierConfig ==
    [PurgeConfig EXCEPT !.action = "fill", !.cameras = {"c1", "c2"},
                        !.require_all = TRUE, !.min_open = 0,
                        !.max_events = 0]

Configs == {TimedConfig, PurgeConfig, FillConfig, BarrierConfig}

NewEventTimes ==
    [start_time |-> Epoch, end_time |-> None, purge_start |-> None,
     purge_complete |-> None, fill_start |-> None, fill_complete |-> None,
     fail_time |-> None, abort_time |-> None]

\* The state behind LN2Handler.__post_init__: the handlers are built, the
\* alerts task is created, start_time is taken.
InitHandler ==
    /\ now = Epoch /\ events = 0
    /\ estop = FALSE /\ nps_up = TRUE
    /\ nps = [on |-> [v \in Valves |-> FALSE],
              script |-> [v \in Valves |-> None], next |-> 1]
    /\ offLog = [v \in Valves |-> {}]
    /\ vh = [v \in Valves |-> NewValveHandler]
    /\ th = [v \in Valves |-> NoThermistor]
    /\ tmo = [v \in Valves |-> NoTask]
    /\ sf = [v \in Valves |-> NoTask]
    /\ mon = [pc |-> "none", wake |-> 0, has |-> FALSE, ts |-> 0, act |-> {}]
    /\ stp = [c \in Callers |-> IdleStop]
    /\ al = [pc |-> "sleep", wake |-> Epoch, n_failed |-> 0, o2_errors |-> 0]
    /\ h = [failed |-> FALSE, aborted |-> FALSE, event_times |-> NewEventTimes]
    /\ gh = [v \in Valves |-> [streak |-> 0, reset |-> FALSE]]

NewMain ==
    [pc |-> "lock", wake |-> 0, deadline |-> 0, listening |-> FALSE,
     signals |-> FALSE, raising |-> FALSE, error |-> FALSE,
     skip_finally |-> FALSE, locked |-> FALSE, exit |-> "none",
     check |-> "none", conflict |-> FALSE, cancelled |-> FALSE,
     validate_failed |-> FALSE, record |-> "none",
     key |-> "none", key_phase |-> "none", sigs |-> 0, sig_tasks |-> 0,
     presweep |-> "none"]

Init ==
    /\ InitHandler
    /\ cfg \in Configs
    /\ m = NewMain
    /\ \E held \in BOOLEAN :
          lk = [file |-> held, pc |-> [p \in Procs |-> "off"],
                clear |-> [p \in Procs |-> FALSE]]

Next ==
    \/ MonSample
    \/ \E v \in Valves : SfOpenIssue(v)
    \/ \E v \in Valves : SfOpenReply(v)
    \/ \E v \in Valves : SfWake(v)
    \/ \E v \in Valves : SfDone(v)
    \/ \E v \in Valves : ThTick(v)
    \/ \E v \in Valves : ThCloseReply(v)
    \/ \E v \in Valves : TmoFire(v)
    \/ \E v \in Valves : TmoCloseReply(v)
    \/ \E c \in Callers, v \in Valves : StopReply(c, v)
    \/ AlertsPollO2
    \/ AlertsPollEstop
    \/ AlertsAbortEnd
    \/ AlertsCount
    \/ \E k \in Keys : KeyPress(k)
    \/ KeysEnd
    \/ Signal
    \/ SignalEnd
    \/ SignalUnhandled
    \/ UpstreamCancel
    \/ PressEstop
    \/ NpsDown
    \/ RunnerLock
    \/ RunnerCheck
    \/ RunnerPresweep
    \/ PurgeBegin
    \/ FillBegin
    \/ \E phase \in {"purge", "fill"} : PhaseEnd(phase)
    \/ FillCloseEnd
    \/ \E phase \in {"purge", "fill"} : PhaseFin(phase)
    \/ RunnerSuccess
    \/ RunnerFinally
    \/ RunnerExit
    \/ Tick

Spec == Init /\ [][Next]_vars

\* Processes racing for the lockfile, each with or without --clear-lock.
InitLock ==
    /\ InitHandler
    /\ cfg = TimedConfig
    /\ m = [NewMain EXCEPT !.pc = "off"]
    /\ lk \in [file: BOOLEAN, pc: [Procs -> {"start"}], clear: [Procs -> BOOLEAN]]

NextLock ==
    \/ \E p \in Procs : LockClearCheck(p)
    \/ \E p \in Procs : LockClearUnlink(p)
    \/ \E p \in Procs : LockExists(p)
    \/ \E p \in Procs : LockTouch(p)
    \/ \E p \in Procs : LockUnlink(p)

SpecLock == InitLock /\ [][NextLock]_vars

\* ------------------------------------------------------------- properties
\* C2: of the processes that call ensure_lock on one lockfile (none of
\* them clearing it), at most one is inside the protected block at a time.
C2_Exclusion ==
    (\A p \in Procs : ~lk.clear[p])
        => Cardinality({p \in Procs : lk.pc[p] = "inblock"}) <= 1

\* The run is over: ln2_runner has left its finally block, or the signal
\* handler has exited the process.
Terminated == m.pc = "terminated"

\* C1: when the run terminates, every valve handler with open_time set has
\* close_time set, and an off command for its valve was put on the wire
\* after the run had begun.
C1_NoLeak ==
    Terminated =>
        \A v \in Handlers :
            vh[v].open_time # None =>
                /\ vh[v].close_time # None
                /\ offLog[v] \ {"presweep"} # {}

\* C9: whenever open_time, first_active and close_time of a valve are all
\* set, open_time <= first_active <= close_time.
C9_ValveTimeOrder ==
    \A v \in Handlers :
        (vh[v].open_time # None /\ th[v].first_active # None
            /\ vh[v].close_time # None)
        => (vh[v].open_time <= th[v].first_active
            /\ th[v].first_active <= vh[v].close_time)

\* The event times in the order the run is meant to stamp them, and those
\* of them that are set.
EventOrder ==
    <<"start_time", "purge_start", "purge_complete", "fill_start",
      "fill_complete", "end_time">>

\* C10: at the end of a run the event times that are set are in the order
\* start_time <= purge_start <= purge_complete <= fill_start <=
\* fill_complete <= end_time.
C10_EventTimeOrder ==
    Terminated =>
        \A i, j \in 1..Len(EventOrder) :
            (i < j /\ h.event_times[EventOrder[i]] # None
                   /\ h.event_times[EventOrder[j]] # None)
            => h.event_times[EventOrder[i]] <= h.event_times[EventOrder[j]]

\* A purge-and-fill has ended with all six event times set, the fill
\* having begun after the purge.
C10_Witness ==
    /\ Terminated
    /\ \A i \in 1..Len(EventOrder) : h.event_times[EventOrder[i]] # None
    /\ h.event_times.purge_complete > h.event_times.purge_start
    /\ h.event_times.end_time > h.event_times.fill_start

\* The watcher of v ends its loop in this step and calls finish().
WatcherEnds(v) == th[v].pc = "sleep" /\ th'[v].pc \in {"closing", "failed", "done"}

\* C4: the thermistor watcher never ends the fill before min_open_time has
\* elapsed since the open_time of its valve.
C4_MinOpen ==
    [][\A v \in Valves :
          WatcherEnds(v) =>
              /\ vh[v].open_time # None
              /\ now - vh[v].open_time >= cfg.min_open]_vars

\* A watcher has ended the fill of a valve with a min_open_time whose
\* thermistor had been active long enough before that time was over.
C4_Witness ==
    \E v \in Valves :
        /\ cfg.min_open > 0
        /\ th[v].pc = "done" /\ th[v].active
        /\ th[v].first_active - vh[v].open_time <= cfg.min_open
        /\ vh[v].close_time - vh[v].open_time > cfg.min_open

\* C5: the thermistor watcher ends the fill only when the readings it has
\* consumed, the one of this round included, are active without a break
\* since at least required_active_time ago; an inactive reading begins the
\* count anew.
C5_RequiredActive ==
    [][\A v \in Valves :
          WatcherEnds(v) =>
              LET streak == StreakAfter(gh[v].streak, Fresh(th[v].last_seen),
                                        v \in mon.act)
              IN streak > 0 /\ now - streak >= cfg.required_active]_vars

\* A watcher has ended the fill after an inactive reading had reset an
\* earlier streak.
C5_Witness ==
    \E v \in Valves :
        /\ cfg.required_active > 0
        /\ gh[v].reset
        /\ th[v].pc = "done" /\ th[v].active

\* A finish(close_valve=True) on v completes in this step.
FinishCloses(v) ==
    \/ ThCloseReply(v)
    \/ TmoCloseReply(v)
    \/ \E c \in Callers \ {"fill"} : StopReply(c, v)

\* C8: a finish() on a valve handler on which a finish() has completed
\* before leaves close_time, timed_out, active and the done event as they
\* were.
C8_IdempotentClose ==
    [][\A v \in Valves :
          (FinishCloses(v) /\ vh[v].event /\ vh[v].close_time # None)
          => /\ vh'[v].close_time = vh[v].close_time
             /\ vh'[v].timed_out = vh[v].timed_out
             /\ vh'[v].active = vh[v].active
             /\ vh'[v].event = vh[v].event]_vars

\* The callers of abort(close_valves=True) and the kinds of their stop().
AbortKinds == {"o2", "n", "abort"}

\* C3: once an abort(close_valves=True) has gathered its finish() calls,
\* an off command of that abort has been put on the wire for every valve
\* of the handler.
C3_AbortCompleteness ==
    \A c \in {"alerts", "keys"} :
        (StopDone(c) /\ stp[c].kind \in AbortKinds)
        => \A v \in Handlers : c \in offLog[v]

\* A fill that waits for all thermistors.
BarrierFill == cfg.require_all /\ cfg.use_thermistors /\ cfg.action # "purge"

Calm == events = 0

\* C6: in a run without disturbance a valve that start_fill has opened and
\* whose watcher does not see the thermistor active long enough is closed
\* by the max-open watcher, with timed_out set, and that no later than
\* max_open_time after the two seconds start_fill sleeps before it starts
\* the watcher.
C6_TimeoutClosure ==
    /\ [](\A v \in Valves :
            (Calm /\ vh[v].open_time # None /\ ~th[v].active
               /\ now > vh[v].open_time + SleepBeforeTimeout + cfg.max_open)
            => (vh[v].close_time # None /\ vh[v].timed_out))
    /\ \A v \in Valves :
          (Calm /\ vh[v].open_time # None)
              ~> (\/ vh[v].close_time # None /\ vh[v].timed_out
                  \/ th[v].active
                  \/ ~Calm)

\* A valve was closed on the timeout, max_open_time and two seconds after
\* it was opened, its thermistor being watched but never active enough.
C6_Witness ==
    \E v \in Valves :
        /\ Calm /\ cfg.use_thermistors /\ ~th[v].active
        /\ vh[v].timed_out
        /\ vh[v].close_time = vh[v].open_time + SleepBeforeTimeout + cfg.max_open

\* The event loop keeps running whatever can run, and time passes.
SpecFair == Spec /\ WF_vars(Next)

\* C11: once a pre-fill check has failed, failed is set, fail_time is
\* recorded, the check has raised into ln2_runner (the run is on its way
\* out with an error), and no start_fill has run: no valve has been sent
\* an on command or has an open_time.
C11_CheckGate ==
    m.check = "fail" =>
        /\ h.failed /\ h.event_times.fail_time # None
        /\ m.error /\ m.pc \in {"finally", "sweep", "terminated"}
        /\ \A v \in Valves : sf[v].pc = "none" /\ vh[v].open_time = None

\* A run whose pre-fill check failed has ended, its final sweep having
\* put an off command on the wire.
C11_Witness ==
    /\ Terminated /\ m.check = "fail"
    /\ \E v \in Handlers : "final" \in offLog[v]

\* C12: while an LN2 e-stop is active no command is put on the wire of
\* the NPS: no off command, no on command or script start, and no cancel
\* of an armed script.
C12_EstopGuard ==
    [][estop =>
        /\ offLog' = offLog
        /\ \A v \in Valves :
              /\ sf'[v].pc = "opening" => sf[v].pc = "opening"
              /\ nps.script[v] # None => nps'.script[v] # None]_vars

\* C21: a SIGINT, SIGTERM or SIGHUP received while the lock is held starts
\* exactly one signal_handler task, however many signals arrive; the flags
\* failed and aborted are set, an off command of that task is put on the
\* wire for every valve of the handler, and the process then ends.
C21_SignalHandling ==
    m.sigs > 0 =>
        /\ m.sig_tasks = 1
        /\ h.failed /\ h.aborted
        /\ ~cfg.dry_run => \A v \in Handlers : "signal" \in offLog[v]
        /\ Terminated => m.exit = "signal"

\* C22: the close_all_valves of fill_runner starts no valve and no
\* thermistor monitoring; when it returns, an off command has been put on
\* the wire for every valve of valve_info, the cameras outside the run
\* included, and every outlet is off; when an off command cannot be
\* carried out (e-stop active, NPS not answering) the call raises.
C22_CloseAllCoverage ==
    [][(m.pc = "presweep" /\ m'.pc # "presweep") =>
          /\ th' = th /\ mon' = mon /\ sf' = sf /\ vh' = vh
          /\ \A v \in Valves : nps'.on[v] => nps.on[v]
          /\ m'.presweep = "ok" =>
                \A v \in Valves : "presweep" \in offLog'[v] /\ ~nps'.on[v]
          /\ (estop \/ ~nps_up) => m'.presweep = "raised" /\ m'.error]_vars

\* The sweep before a run on camera c1 alone has returned: c2 was sent
\* its off command too.
C22_Witness ==
    /\ m.presweep = "ok" /\ m.pc = "purge_pre" /\ cfg.cameras = {"c1"}
    /\ \A v \in Valves : "presweep" \in offLog[v]

\* C23: a valve handler that is active has open_time set and close_time
\* unset.
C23_ActiveInvariant ==
    \A v \in Valves :
        vh[v].active => vh[v].open_time # None /\ vh[v].close_time = None

\* C24: while start_fill has not returned, a valve that a finish() closed
\* after it was opened has its event set: the event a close has set is
\* not cleared again.
C24_DoneOneShot ==
    \A v \in Valves :
        (/\ sf[v].pc \in {"sleep", "wait"}
         /\ vh[v].open_time # None /\ vh[v].close_time # None
         /\ vh[v].close_time > vh[v].open_time)
        => vh[v].event

\* The event of an opened valve is set only after its off command was
\* answered: close_time, which _set_state stamps on the reply, is recorded.
ClosedBeforeDone(v) ==
    (vh[v].event /\ vh[v].open_time # None) => vh[v].close_time # None

\* C25: in every mode, whenever the event of an opened valve is set the
\* valve has been sent its off command and its close_time is recorded.
C25_CloseBeforeDone == \A v \in Valves : ClosedBeforeDone(v)

\* C25, as the code has it: that holds for a valve whose watcher closes on
\* active while no e-stop is active; with require_all_thermistors and in
\* the abort of an e-stop finish() sets the event of an open valve.
C25_CloseBeforeDoneWhenClosing ==
    \A v \in Valves : (CloseOnActive(v) /\ ~estop) => ClosedBeforeDone(v)

\* The watcher of a camera valve saw its thermistor active and closed the
\* valve itself; the event is set and close_time recorded.
C25_Witness ==
    \E v \in Cameras :
        /\ CloseOnActive(v) /\ ~estop
        /\ th[v].pc = "done" /\ th[v].active
        /\ vh[v].event /\ vh[v].open_time # None /\ vh[v].close_time # None

\* C26: a finish() on an opened valve whose off command failed has
\* nevertheless set the event, recorded close_time and stopped both watchers of its valve; and
\* a start_fill that is over, by return, exception or cancellation, has
\* its event set.
C26_DoneOnEveryExit ==
    \A v \in Handlers :
        /\ ( /\ vh[v].open_time # None
             /\ \/ tmo[v].pc = "failed" \/ th[v].pc = "failed"
                \/ \E c \in Callers \ {"fill"} :
                      stp[c].pc # "idle" /\ stp[c].sub[v] = "failed" )
           => /\ vh[v].event /\ vh[v].close_time # None
              /\ ~Live(th[v]) /\ ~Live(tmo[v])
        /\ sf[v].pc \in {"done", "failed", "cancelled"} => vh[v].event

\* C27: a start_fill that was cancelled has no watcher left: neither its
\* thermistor watcher nor its max-open watcher sleeps on or is closing
\* the valve.
C27_CancelReachesWatchers ==
    \A v \in Valves :
        sf[v].pc = "cancelled" => ~Live(th[v]) /\ ~Live(tmo[v])

\* C13: ln2_runner returns normally only when handler.failed and
\* handler.aborted were never set, no wait was cut by the outer timeout,
\* the validation did not fail and the lock was free; in every other case
\* the run ends with an error and, the lock conflict apart, handler.failed
\* is true.
C13_FailureReporting ==
    Terminated /\ m.exit # "killed"
               /\ ( \/ h.failed \/ h.aborted \/ m.validate_failed
                    \/ m.conflict
                    \/ ~m.cancelled /\ \E v \in Valves : sf[v].pc = "cancelled" )
        => /\ m.exit # "ok"
           /\ ~m.conflict => h.failed

\* C14: an invocation that found the lockfile present runs no pre-fill
\* check, puts no valve command on the wire, opens no valve and leaves the
\* lockfile of the running invocation in place.
C14_LockLoserInert ==
    m.conflict =>
        /\ m.check = "none"
        /\ \A v \in Handlers : offLog[v] = {}
        /\ \A v \in Valves : sf[v].pc = "none" /\ vh[v].open_time = None
        /\ lk.file

\* C15: once an invocation that acquired the lock has terminated, the
\* lockfile no longer exists, whichever way the protected block was left.
C15_LockRelease ==
    Terminated /\ ~m.conflict /\ m.exit # "killed" => ~lk.file

\* C16: the safety loop sleeps 3 s between polls; an abort it began on an
\* O2 alarm ends with an off command of that abort on the wire for every
\* valve of the handler, an abort it began on an active e-stop puts no off
\* command on the wire, and when either abort ends aborted and failed are
\* true and abort_time and fail_time are set.
C16_SafetyLoop ==
    [][/\ (al.pc # "sleep" /\ al'.pc = "sleep")
            => al'.wake = now' + AlertsInterval
       /\ (al.pc = "abort" /\ stp["alerts"].kind = "estop")
            => \A v \in Handlers :
                  ("alerts" \in offLog'[v]) = ("alerts" \in offLog[v])
       /\ (al.pc = "abort" /\ al'.pc \notin {"abort", "cancelled"}
             /\ stp["alerts"].kind \in {"o2", "estop"})
            => /\ h'.aborted /\ h'.failed
               /\ h'.event_times.abort_time # None
               /\ h'.event_times.fail_time # None
               /\ stp["alerts"].kind = "o2"
                    => \A v \in Handlers : "alerts" \in offLog'[v]]_vars

\* C17: "enter" puts an off command on the wire only for the valves that
\* are active and leaves failed and aborted alone; when it is the only
\* disturbance of a purge-and-fill the valves it stopped are closed, the
\* flags stay false up to the validation and the fill follows.  "x" puts
\* an off command on the wire for every valve of the handler and sets
\* aborted; after an "x" in the purge no camera valve is ever opened, and
\* the run ends with failed set and an error.
C17_OperatorKeys ==
    [][/\ (stp["keys"].pc = "idle" /\ stp'["keys"].pc = "run"
             /\ stp'["keys"].kind = "stop")
            => /\ \A v \in Handlers : "keys" \in offLog'[v] => vh[v].active
               /\ h' = h
       /\ (m'.key = "enter" /\ events' = 1 /\ ~m'.validate_failed)
            => ~h'.failed /\ ~h'.aborted
       /\ (m'.key = "enter" /\ events' = 1 /\ m'.pc = "terminated")
            => /\ \A v \in Handlers : "keys" \in offLog'[v] => ~nps'.on[v]
               /\ m'.key_phase = "purge" /\ cfg.action = "purge-and-fill"
                    => h'.event_times.fill_start # None
       /\ m'.key = "x"
            => /\ h'.aborted
               /\ \A v \in Handlers : "keys" \in offLog'[v]
               /\ m'.key_phase = "purge"
                    => \A c \in Cameras :
                          sf'[c].pc = "none" /\ vh'[c].open_time = None
       /\ (m'.key = "x" /\ m'.pc = "terminated")
            => h'.failed /\ m'.exit # "ok"]_vars

\* C18: a run that acquired the lock and ends with an error has run the
\* final close-all sweep and has written the final run record before the
\* error reaches the caller.
C18_ErrorPropagation ==
    Terminated /\ m.exit = "error" /\ ~m.conflict
        => stp["final"].pc = "over" /\ m.record # "none"

\* C19: a run cancelled from outside during a purge or a fill, when
\* ln2_runner has ended, has ended like an abort, with aborted and failed
\* set and an error instead of a success record, and its final close-all
\* sweep has run.
C19_UpstreamCancellation ==
    Terminated /\ m.cancelled /\ m.exit \in {"ok", "error", "cancelled"}
        => /\ h.aborted /\ h.failed
           /\ m.exit # "ok" /\ m.record # "complete"
           /\ stp["final"].pc = "over"

\* -------------------------------------------------- validate_fill alone
\* The times of the samples: at end_time, and just short of and exactly
\* three minutes after it.
SampleTimes(end_time) == {end_time, end_time + ExtraTime - 1, end_time + ExtraTime}

\* The thresholds: the default, and one either side of it.
Increases == {-1, 0, 1}

\* The event times of a run that filled, and of one that only purged.
ValidateEventTimes ==
    {[NewEventTimes EXCEPT !.fill_start = Epoch + 1, !.fill_complete = Epoch + 4,
                           !.end_time = Epoch + 5],
     [NewEventTimes EXCEPT !.purge_start = Epoch + 1, !.purge_complete = Epoch + 4,
                           !.end_time = Epoch + 5]}

\* validate_fill on every dataset, threshold and set of cameras.
InitValidate ==
    /\ now = Epoch + ExtraTime + 5 /\ events = 0
    /\ estop = FALSE /\ nps_up = TRUE
    /\ nps = [on |-> [v \in Valves |-> FALSE],
              script |-> [v \in Valves |-> None], next |-> 1]
    /\ offLog = [v \in Valves |-> {}]
    /\ vh = [v \in Valves |-> NewValveHandler]
    /\ th = [v \in Valves |-> NoThermistor]
    /\ tmo = [v \in Valves |-> NoTask]
    /\ sf = [v \in Valves |-> NoTask]
    /\ mon = [pc |-> "none", wake |-> 0, has |-> FALSE, ts |-> 0, act |-> {}]
    /\ stp = [c \in Callers |-> IdleStop]
    /\ al = [pc |-> "none", wake |-> 0, n_failed |-> 0]
    /\ gh = [v \in Valves |-> [streak |-> 0, reset |-> FALSE]]
    /\ lk = [file |-> FALSE, pc |-> [p \in Procs |-> "off"],
             clear |-> [p \in Procs |-> FALSE]]
    /\ \E et \in ValidateEventTimes :
          /\ h = [failed |-> FALSE, aborted |-> FALSE, event_times |-> et]
          /\ \E T \in SUBSET SampleTimes(et.end_time) \ {{}} :
                \E d \in Datasets(T) :
                   m = [pc |-> "validate", data |-> d, validate_failed |-> FALSE]
    /\ \E cams \in {{"c1"}, {"c1", "c2"}}, k \in Increases :
          cfg = [TimedConfig EXCEPT !.cameras = cams,
                                    !.max_temperature_increase = k]

NextValidate == Validate

SpecValidate == InitValidate /\ [][NextValidate]_vars

\* C20: on data that is not empty validate_fill reports a failure exactly
\* when a fill ran (fill_start and fill_complete are set), the last sample
\* is at least three minutes after end_time, and for some camera of the
\* run the last LN2 temperature is above the first, by more than
\* max_temperature_increase.
C20_ValidatorDecision ==
    m.pc = "validated" =>
        LET et == h.event_times
            d == m.data
            rise(c) == d[LastTime(d)][c] - d[FirstTime(d)][c]
            filled == et.fill_start # None /\ et.fill_complete # None
            enough == LastTime(d) - et.end_time >= ExtraTime
            grew == \E c \in cfg.cameras \cap DataCams :
                       rise(c) > 0 /\ rise(c) > cfg.max_temperature_increase
        IN m.validate_failed <=> (filled /\ enough /\ grew)

\* A validation has failed on the second camera of the run with a
\* threshold above the default, the first camera having cooled.
C20_Witness ==
    /\ m.pc = "validated" /\ m.validate_failed /\ h.failed
    /\ cfg.max_temperature_increase > 0 /\ cfg.cameras = {"c1", "c2"}
    /\ m.data[LastTime(m.data)]["c1"] < m.data[FirstTime(m.data)]["c1"]

\* An on command for the valve has been put on the wire.
OnSent(v) ==
    \/ sf[v].pc \in {"opening", "sleep", "wait", "done"}
    \/ vh[v].open_time # None
    \/ nps.on[v]

\* C31: no on command is sent to a valve before check() has passed and
\* the close-all sweep has returned without error, and in a purge-and-fill
\* no camera valve is sent one before the start_fill of the purge valve
\* has returned with its event set.
C31_PhaseOrder ==
    /\ \A v \in Valves :
          OnSent(v) => m.check = "pass" /\ m.presweep = "ok"
    /\ cfg.action = "purge-and-fill" =>
          \A c \in Cameras :
              OnSent(c) => vh["purge"].event /\ sf["purge"].pc = "done"

\* A purge-and-fill has opened the valve of its camera after the purge.
C31_Witness ==
    /\ cfg.action = "purge-and-fill"
    /\ \E c \in Cameras : vh[c].open_time # None /\ nps.on[c]
    /\ vh["purge"].event /\ vh["purge"].close_time # None

\* monitor_alerts has polled: it is past its first read of o2_alert().
AlertsPolled ==
    \/ al.pc \in {"estop", "count", "abort"}
    \/ al.pc = "sleep" /\ al.wake > Epoch

\* C32: the safety loop does not poll, abort or command a valve before
\* check() has passed; in particular not in an invocation that does not
\* hold the lock.
C32_SafetyLoopAfterGate ==
    /\ AlertsPolled => m.check = "pass"
    /\ stp["alerts"].pc # "idle" => m.check = "pass" /\ m.locked
    /\ \A v \in Valves : "alerts" \in offLog[v] => m.locked

\* C33: timed_out becomes true only in a step in which the max-open
\* timer closes a valve that was open until then; a valve that something
\* else has closed is not marked as timed out afterwards.
C33_TimedOutTruthful ==
    [][\A v \in Valves :
          (vh'[v].timed_out /\ ~vh[v].timed_out)
          => /\ tmo[v].pc = "closing"
             /\ nps.on[v] /\ ~nps'.on[v]]_vars

\* The fields of EventDict.
EventFields == DOMAIN NewEventTimes

\* C37: failed and aborted never go back to false, and an event time
\* that is set is never unset.
C37_MonotoneRecord ==
    [][/\ h.failed => h'.failed
       /\ h.aborted => h'.aborted
       /\ \A f \in EventFields :
             h.event_times[f] # None => h'.event_times[f] # None]_vars

\* A run that failed in the purge was aborted afterwards and has ended:
\* both flags and the times of the failure, the abort and the end are set.
C37_Witness ==
    /\ Terminated /\ h.failed /\ h.aborted
    /\ h.event_times.purge_start # None
    /\ h.event_times.fail_time # None /\ h.event_times.abort_time # None
    /\ h.event_times.end_time # None
    /\ h.event_times.fail_time < h.event_times.abort_time

\* ---------------------------------------------- cancel_nps_threads alone
MaxThread == 3   \* the largest thread id the NPS hands out here

\* The ids a script may run under, counted from zero.
ThreadIds == 0..MaxThread

\* The scripts armed in the NPS: every script has an id of its own.
ArmedScripts ==
    {sc \in [Valves -> ThreadIds \cup {None}] :
        \A v, w \in Valves : (v # w /\ sc[v] # None) => sc[v] # sc[w]}

\* cancel_nps_threads on every set of armed scripts, with every id and
\* without one.
InitCancel ==
    /\ InitHandler
    /\ cfg = TimedConfig
    /\ lk = [file |-> FALSE, pc |-> [p \in Procs |-> "off"],
             clear |-> [p \in Procs |-> FALSE]]
    /\ \E sc \in ArmedScripts, id \in ThreadIds \cup {None} :
          m = [pc |-> "cancel", thread_id |-> id, before |-> sc]

\* The script the NPS runs for a valve is armed.
ArmScripts ==
    /\ m.pc = "cancel"
    /\ nps' = [nps EXCEPT !.script = m.before]
    /\ m' = [m EXCEPT !.pc = "armed"]
    /\ UNCHANGED <<envVars, cfg, offLog, vh, th, tmo, sf, mon, stp, al, h, lk, gh>>

\* cancel_nps_threads(actor, thread_id) is sent and carried out.
CancelThreads ==
    /\ m.pc = "armed"
    /\ nps' = [nps EXCEPT !.script = CancelNpsThreads(nps.script, m.thread_id)]
    /\ m' = [m EXCEPT !.pc = "cancelled"]
    /\ UNCHANGED <<envVars, cfg, offLog, vh, th, tmo, sf, mon, stp, al, h, lk, gh>>

NextCancel == ArmScripts \/ CancelThreads

SpecCancel == InitCancel /\ [][NextCancel]_vars

\* C28: cancel_nps_threads with a thread id stops the script with that id
\* and no other; without an id it stops every script.
C28_TargetedCancel ==
    m.pc = "cancelled" =>
        \A v \in Valves :
            nps.script[v] =
                IF m.thread_id = None \/ m.before[v] = m.thread_id
                THEN None ELSE m.before[v]

\* ------------------------------------------- _set_state, wire by wire
\* The timeouts a valve is opened with: none, or a number of seconds.
SetStateTimeouts == {None, MaxOpen}

\* valve_on_off: the open is handed to the cycle_with_timeout script.
IsScript(on, timeout, use_script) == on /\ timeout # None /\ use_script

\* valve_on_off: the command string that goes to the NPS actor.
CommandString(on, timeout, use_script) ==
    IF IsScript(on, timeout, use_script) THEN "scripts run"
    ELSE IF ~on THEN "off"
    ELSE IF timeout = None THEN "on" ELSE "on --off-after"

\* A _set_state that logs the error of cancel_nps_threads and goes on.
CancelErrorLogged(raises) == FALSE

\* "await cancel_nps_threads(...)" stands outside any try: its exception
\* leaves _set_state.
CancelErrorRaised(raises) == raises

\* One call of ValveHandler._set_state, on every valve, with every
\* argument, with and without dry_run, a cached thread id and an e-stop;
\* finish() makes the call that closes the valve it has opened.
InitSetState ==
    /\ InitHandler
    /\ \E dry \in BOOLEAN : cfg = [TimedConfig EXCEPT !.dry_run = dry]
    /\ lk = [file |-> FALSE, pc |-> [p \in Procs |-> "off"],
             clear |-> [p \in Procs |-> FALSE]]
    /\ \E v \in Valves, on \in BOOLEAN, t \in SetStateTimeouts,
          us \in BOOLEAN, id \in {None, 0, 1}, e \in BOOLEAN :
          m = [pc |-> "set_state", valve |-> v, on |-> on, timeout |-> t,
               use_script |-> us, thread_id |-> id, estops |-> e,
               wire |-> {}, returned |-> None, cancel_raises |-> FALSE,
               active |-> ~on, event |-> FALSE, close_time |-> None]

\* _set_state: the cached script is cancelled unless the run is dry;
\* cancel_nps_threads returns, or raises once its retries are used up.
SetStateCancel ==
    /\ m.pc = "set_state"
    /\ IF m.thread_id # None /\ ~cfg.dry_run
       THEN \E raises \in BOOLEAN :
               m' = [m EXCEPT !.pc = IF CancelErrorRaised(raises)
                                     THEN "raised" ELSE "estops",
                              !.cancel_raises = raises,
                              !.wire = @ \cup {"scripts stop"}]
       ELSE m' = [m EXCEPT !.pc = "estops"]
    /\ UNCHANGED <<envVars, cfg, nps, offLog, vh, th, tmo, sf, mon, stp, al, h, lk, gh>>

\* valve_on_off: ln2_estops() asks lvmecp, not the NPS; an active e-stop
\* raises.
SetStateEstops ==
    /\ m.pc = "estops"
    /\ m' = [m EXCEPT !.pc = IF m.estops THEN "raised"
                             ELSE IF IsScript(m.on, m.timeout, m.use_script)
                                  THEN "outlet_info" ELSE "command"]
    /\ UNCHANGED <<envVars, cfg, nps, offLog, vh, th, tmo, sf, mon, stp, al, h, lk, gh>>

\* valve_on_off, scripted open: outlet_info sends "status <outlet>".
SetStateOutletInfo ==
    /\ m.pc = "outlet_info"
    /\ m' = [m EXCEPT !.pc = "command", !.wire = @ \cup {"status"}]
    /\ UNCHANGED <<envVars, cfg, nps, offLog, vh, th, tmo, sf, mon, stp, al, h, lk, gh>>

\* valve_on_off: the dry run returns here, 0 for a script; otherwise the
\* command is sent and a script answers with its thread id.
SetStateCommand ==
    /\ m.pc = "command"
    /\ LET script == IsScript(m.on, m.timeout, m.use_script)
       IN  IF cfg.dry_run
           THEN m' = [m EXCEPT !.pc = "done",
                               !.returned = IF script THEN 0 ELSE None,
                               !.close_time = IF m.on THEN @ ELSE now]
           ELSE m' = [m EXCEPT !.pc = "done",
                               !.wire = @ \cup {CommandString(m.on, m.timeout,
                                                              m.use_script)},
                               !.returned = IF script THEN nps.next ELSE None,
                               !.close_time = IF m.on THEN @ ELSE now]
    /\ UNCHANGED <<envVars, cfg, nps, offLog, vh, th, tmo, sf, mon, stp, al, h, lk, gh>>

\* finish(), after _set_state(False) has returned: active is cleared and
\* the event is set.
SetStateFinish ==
    /\ m.pc = "done" /\ ~m.on
    /\ m' = [m EXCEPT !.pc = "finished", !.active = FALSE, !.event = TRUE]
    /\ UNCHANGED <<envVars, cfg, nps, offLog, vh, th, tmo, sf, mon, stp, al, h, lk, gh>>

NextSetState ==
    \/ SetStateCancel \/ SetStateEstops \/ SetStateOutletInfo
    \/ SetStateCommand \/ SetStateFinish

SpecSetState == InitSetState /\ [][NextSetState]_vars

\* C29: in a dry run _set_state puts nothing on the wire to the NPS, and
\* a scripted open returns a thread id.
C29_DryRunWireSilent ==
    cfg.dry_run =>
        /\ m.wire = {}
        /\ (m.pc = "done" /\ IsScript(m.on, m.timeout, m.use_script))
              => m.returned # None

\* ------------------------------------------- monitor_alerts on its own
MaxReads == 11        \* reads that fail or alarm, e-stops and NPS losses
MaxAlertsTime == 31   \* the seconds the safety loop is followed for

\* A handler whose safety loop runs while no valve is open.
AlertsConfig == [TimedConfig EXCEPT !.max_events = MaxReads]

InitAlerts ==
    /\ InitHandler
    /\ cfg = AlertsConfig
    /\ m = [NewMain EXCEPT !.pc = "alerts"]
    /\ lk = [file |-> TRUE, pc |-> [p \in Procs |-> "off"],
             clear |-> [p \in Procs |-> FALSE]]

\* ln2_estops() raises: the error is logged and the loop goes on to the
\* n_failed check.
AlertsPollEstopError ==
    /\ al.pc = "estop"
    /\ events < cfg.max_events
    /\ events' = events + 1
    /\ al' = [al EXCEPT !.pc = "count"]
    /\ UNCHANGED <<now, estop, nps_up, cfg, nps, offLog, vh, th, tmo, sf, mon,
                   stp, h, m, lk, gh>>

\* asyncio.sleep(3) is over.
AlertsSleep ==
    /\ al.pc = "sleep" /\ al.wake > now
    /\ Quiet /\ ~InFlight
    /\ now' = al.wake
    /\ now' <= MaxAlertsTime
    /\ UNCHANGED <<events, estop, nps_up, cfg, nps, offLog, vh, th, tmo, sf,
                   mon, stp, al, h, m, lk, gh>>

NextAlerts ==
    \/ AlertsPollO2
    \/ AlertsPollEstop
    \/ AlertsPollEstopError
    \/ AlertsAbortEnd
    \/ AlertsCount
    \/ \E v \in Valves : StopReply("alerts", v)
    \/ PressEstop
    \/ NpsDown
    \/ AlertsSleep

SpecAlerts == InitAlerts /\ [][NextAlerts]_vars

\* The safety loop is in abort() because of n_failed.
TooManyErrors == stp["alerts"].pc = "run" /\ stp["alerts"].kind = "n"

\* C30: the safety loop aborts for read errors only after MaxNFailed
\* o2_alert reads in a row have failed; between the reads n_failed is the
\* number of o2_alert reads that have failed in a row, zero after a read
\* that succeeded, whatever the e-stop reads did.
C30_ReadFailureTolerance ==
    /\ TooManyErrors => al.o2_errors >= MaxNFailed
    /\ al.pc \in {"estop", "count", "sleep"} => al.n_failed = al.o2_errors

\* ------------------------------------------- ThermistorMonitor on its own
MaxCalls == 6      \* calls of ThermistorMonitor(), start() and stop()
MaxSamples == 2    \* data points the workers append

\* A start() that creates a worker whatever the state of the last one.
StartCreatesAlways(tasks, task) == TRUE

\* A start() that takes a worker whose cancellation is pending for done.
StartCreatesUnlessRunning(tasks, task) == task = 0 \/ tasks[task] # "running"

\* start(): "if self._task and not self._task.done(): return".  tasks are
\* the worker tasks created so far, task is the index of self._task, 0 for
\* None; a task whose cancellation was requested is not done until the
\* loop has run it once more.
StartCreates(tasks, task) == task = 0 \/ tasks[task] = "done"

\* The class before the first ThermistorMonitor() of the process.
InitMonitor ==
    /\ InitHandler
    /\ cfg = TimedConfig
    /\ lk = [file |-> FALSE, pc |-> [p \in Procs |-> "off"],
             clear |-> [p \in Procs |-> FALSE]]
    /\ m = [pc |-> "monitor", instances |-> 0, initialised |-> FALSE,
            tasks |-> <<>>, task |-> 0, data |-> 0, calls |-> 0,
            last |-> "none", race |-> FALSE, data_at |-> 0]

\* ThermistorMonitor(): __new__ makes the instance once, __init__ returns
\* at once when it is initialised.
MonNew ==
    /\ m.pc = "monitor" /\ m.calls < MaxCalls
    /\ m' = [m EXCEPT !.instances = IF @ = 0 THEN 1 ELSE @,
                      !.initialised = TRUE,
                      !.data = IF m.initialised THEN @ ELSE 0,
                      !.task = IF m.initialised THEN @ ELSE 0,
                      !.calls = @ + 1, !.last = "new", !.race = FALSE]
    /\ UNCHANGED <<envVars, cfg, nps, offLog, vh, th, tmo, sf, mon, stp, al, h, lk, gh>>

\* start().
MonStartCall ==
    /\ m.pc = "monitor" /\ m.calls < MaxCalls /\ m.instances > 0
    /\ LET called == [m EXCEPT !.calls = @ + 1, !.last = "start",
                                !.race = (m.task # 0
                                          /\ m.tasks[m.task] = "cancelling"),
                                !.data_at = m.data]
       IN  m' = IF StartCreates(m.tasks, m.task)
                THEN [called EXCEPT !.tasks = Append(@, "running"),
                                    !.task = Len(m.tasks) + 1]
                ELSE called
    /\ UNCHANGED <<envVars, cfg, nps, offLog, vh, th, tmo, sf, mon, stp, al, h, lk, gh>>

\* stop(): the cancellation of a task that is not done is requested.
MonStopCall ==
    /\ m.pc = "monitor" /\ m.calls < MaxCalls /\ m.instances > 0
    /\ m' = [m EXCEPT !.tasks = IF m.task # 0 /\ m.tasks[m.task] # "done"
                                THEN [@ EXCEPT ![m.task] = "cancelling"] ELSE @,
                      !.calls = @ + 1, !.last = "stop", !.race = FALSE]
    /\ UNCHANGED <<envVars, cfg, nps, offLog, vh, th, tmo, sf, mon, stp, al, h, lk, gh>>

\* _monitor, one round of a worker: a data point is appended.
MonWorkerRound ==
    /\ m.pc = "monitor" /\ m.data < MaxSamples
    /\ \E i \in DOMAIN m.tasks : m.tasks[i] = "running"
    /\ m' = [m EXCEPT !.data = @ + 1]
    /\ UNCHANGED <<envVars, cfg, nps, offLog, vh, th, tmo, sf, mon, stp, al, h, lk, gh>>

\* _monitor, cancelled: CancelledError is raised at the await of the
\* worker and the task is done.
MonWorkerCancelled ==
    /\ m.pc = "monitor"
    /\ \E i \in DOMAIN m.tasks :
          /\ m.tasks[i] = "cancelling"
          /\ m' = [m EXCEPT !.tasks[i] = "done"]
    /\ UNCHANGED <<envVars, cfg, nps, offLog, vh, th, tmo, sf, mon, stp, al, h, lk, gh>>

NextMonitor ==
    MonNew \/ MonStartCall \/ MonStopCall \/ MonWorkerRound \/ MonWorkerCancelled

SpecMonitor == InitMonitor /\ [][NextMonitor]_vars

\* The worker tasks that are not done, and those that still sample.
LiveWorkers == {i \in DOMAIN m.tasks : m.tasks[i] # "done"}
RunningWorkers == {i \in DOMAIN m.tasks : m.tasks[i] = "running"}

\* A call of the monitor's interface is made in this step.
MonCalled(name) == m'.calls = m.calls + 1 /\ m'.last = name

\* C34: there is one ThermistorMonitor with at most one worker that is
\* not done; a construction after the first and a start() while a worker
\* runs create nothing and keep the data; after stop() no worker runs;
\* data is appended only while a worker runs.
C34_MonitorSingleton ==
    [][/\ m'.instances <= 1
       /\ Cardinality(LiveWorkers') <= 1
       /\ (MonCalled("new") /\ m.instances > 0)
             => m'.data = m.data /\ m'.tasks = m.tasks /\ m'.task = m.task
       /\ (MonCalled("start") /\ RunningWorkers # {})
             => m'.data = m.data /\ m'.tasks = m.tasks /\ m'.task = m.task
       /\ MonCalled("stop") => RunningWorkers' = {}
       /\ m'.data # m.data => RunningWorkers # {} /\ m'.data = m.data + 1]_vars

\* start() was called twice while the worker of the first call runs, and
\* the monitor was constructed again: one worker, the data are kept.
C34_Witness ==
    /\ m.pc = "monitor" /\ m.calls = 4 /\ m.last \in {"new", "start"}
    /\ Len(m.tasks) = 1 /\ m.tasks[1] = "running" /\ m.data = MaxSamples

\* C40: a start() that finds the worker cancelled but not yet done
\* creates no worker; until the next call nothing is appended to the
\* data and, once the cancelled worker is done, the monitor is idle.
C40_RestartRace ==
    (m.pc = "monitor" /\ m.last = "start" /\ m.race)
    => /\ RunningWorkers = {}
       /\ m.data = m.data_at
       /\ \A i \in DOMAIN m.tasks : i # m.task => m.tasks[i] = "done"

\* stop() and start() in a row, then the cancelled worker is done: the
\* monitor is idle after a start(), with the data of before.
C40_Witness ==
    /\ m.pc = "monitor" /\ m.last = "start" /\ m.race
    /\ LiveWorkers = {} /\ m.data > 0

\* The on or off command of _set_state, in one of its forms.
ValveCommands == {"on", "on --off-after", "off", "scripts run"}

\* C38: with a cached thread id and no dry run the cancel request is on
\* the wire and has returned before the on or off command is sent; when
\* the cancel raises, the close sends no off, stamps no close_time and
\* finish() neither clears active nor sets the event.
C38_CancelGatesOff ==
    (m.thread_id # None /\ ~cfg.dry_run) =>
        /\ m.wire \cap ValveCommands # {}
              => "scripts stop" \in m.wire /\ ~m.cancel_raises
        /\ m.cancel_raises
              => /\ m.pc = "raised" /\ m.wire = {"scripts stop"}
                 /\ m.close_time = None /\ ~m.event
                 /\ ~m.on => m.active

\* A close whose cancel raised, and nothing else happened.
C38_Witness ==
    /\ m.pc = "raised" /\ m.cancel_raises /\ ~m.on /\ ~m.estops
    /\ m.thread_id = 1 /\ m.active /\ m.wire = {"scripts stop"}

\* --------------------------------------------- the outlet of a command
\* The outlet names of the NPS: those that are valve names and two more.
Outlets == Valves \cup {"o1", "o2"}

\* valve_info: every valve has an outlet of its own.
OutletMaps ==
    {f \in [Valves -> Outlets] : \A v, w \in Valves : v # w => f[v] # f[w]}

NoCommand == [kind |-> "none", valve |-> "none", outlet |-> "none"]

\* A handler for every configuration of the outlets, before any command.
InitOutlet ==
    /\ InitHandler
    /\ cfg = TimedConfig
    /\ lk = [file |-> FALSE, pc |-> [p \in Procs |-> "off"],
             clear |-> [p \in Procs |-> FALSE]]
    /\ \E f \in OutletMaps : m = [pc |-> "outlet", outlet |-> f, sent |-> NoCommand]

\* ValveHandler.check: outlet_info(self.actor, self.outlet).
OutletCheck(v) ==
    /\ m.pc = "outlet"
    /\ m' = [m EXCEPT !.sent = [kind |-> "status", valve |-> v,
                                outlet |-> m.outlet[v]]]
    /\ UNCHANGED <<envVars, cfg, nps, offLog, vh, th, tmo, sf, mon, stp, al, h, lk, gh>>

\* ValveHandler._set_state: valve_on_off(self.actor, self.valve, on, ...);
\* a scripted open looks up the id of that name and runs the script on it.
OutletSetState(v, on) ==
    /\ m.pc = "outlet"
    /\ \E k \in (IF on THEN {"on", "scripts run"} ELSE {"off"}) :
          m' = [m EXCEPT !.sent = [kind |-> k, valve |-> v, outlet |-> v]]
    /\ UNCHANGED <<envVars, cfg, nps, offLog, vh, th, tmo, sf, mon, stp, al, h, lk, gh>>

\* close_all_valves: valve_on_off(actor, valve_info[valve]["outlet"], False).
OutletCloseAll(v) ==
    /\ m.pc = "outlet"
    /\ m' = [m EXCEPT !.sent = [kind |-> "sweep off", valve |-> v,
                                outlet |-> m.outlet[v]]]
    /\ UNCHANGED <<envVars, cfg, nps, offLog, vh, th, tmo, sf, mon, stp, al, h, lk, gh>>

NextOutlet ==
    \/ \E v \in Valves : OutletCheck(v)
    \/ \E v \in Valves, on \in BOOLEAN : OutletSetState(v, on)
    \/ \E v \in Valves : OutletCloseAll(v)

SpecOutlet == InitOutlet /\ [][NextOutlet]_vars

\* C35: every command sent for a valve goes to the outlet configured for
\* that valve.
C35_OutletAddressing ==
    (m.pc = "outlet" /\ m.sent.kind # "none")
    => m.sent.outlet = m.outlet[m.sent.valve]

\* ------------------------------------------------ Config.validate_after
MaxConfigTime == 1   \* purge_time and fill_time: unset, 0 or up to this

\* The values --interactive takes.
InteractiveModes == {"auto", "yes", "no"}

ConfigTimes == {None} \cup 0..MaxConfigTime

\* validate_interactive: auto is decided by is_container().
ValidateInteractive(value, is_container) ==
    IF value = "yes" THEN "yes"
    ELSE IF value = "no" THEN "no"
    ELSE IF is_container THEN "no" ELSE "yes"

\* bool() of a member of the str enum InteractiveMode: of its value, a
\* string that is not empty.
EnumTruth(value) == value # ""

\* bool() of an optional number.
TimeTruth(t) == t # None /\ t # 0

\* "not self.interactive" in validate_after.
NotInteractive(value) == ~EnumTruth(value)

\* validate_after, the checks on thermistors and times: TRUE when a
\* ValueError is raised.
ValidateAfterRaises(c) ==
    \/ /\ ~c.use_thermistors /\ NotInteractive(c.interactive)
       /\ \/ c.action = "purge-and-fill"
             /\ (c.fill_time = None \/ c.purge_time = None)
          \/ c.action = "purge" /\ c.purge_time = None
          \/ c.action = "fill" /\ c.fill_time = None
    \/ c.use_thermistors /\ (TimeTruth(c.purge_time) \/ TimeTruth(c.fill_time))
    \/ c.use_thermistors /\ (c.max_fill_time = None \/ c.max_purge_time = None)

\* Config(...) is called with every combination of the fields.
InitConfig ==
    /\ InitHandler
    /\ cfg = TimedConfig
    /\ lk = [file |-> FALSE, pc |-> [p \in Procs |-> "off"],
             clear |-> [p \in Procs |-> FALSE]]
    /\ \E a \in Actions, i \in InteractiveModes, con \in BOOLEAN,
          ut \in BOOLEAN, pt \in ConfigTimes, ft \in ConfigTimes,
          mx \in {None, MaxConfigTime} :
          m = [pc |-> "config", action |-> a, interactive |-> i,
               is_container |-> con, use_thermistors |-> ut,
               purge_time |-> pt, fill_time |-> ft,
               max_purge_time |-> mx, max_fill_time |-> mx]

\* The field validator of interactive.
ConfigInteractive ==
    /\ m.pc = "config"
    /\ m' = [m EXCEPT !.pc = "after",
                      !.interactive = ValidateInteractive(@, m.is_container)]
    /\ UNCHANGED <<envVars, cfg, nps, offLog, vh, th, tmo, sf, mon, stp, al, h, lk, gh>>

\* validate_after.
ConfigAfter ==
    /\ m.pc = "after"
    /\ m' = [m EXCEPT !.pc = IF ValidateAfterRaises(m) THEN "ValueError"
                             ELSE "valid"]
    /\ UNCHANGED <<envVars, cfg, nps, offLog, vh, th, tmo, sf, mon, stp, al, h, lk, gh>>

NextConfig == ConfigInteractive \/ ConfigAfter

SpecConfig == InitConfig /\ [][NextConfig]_vars

\* The time the action needs is missing.
TimeMissing(c) ==
    \/ c.action = "purge-and-fill" /\ (c.purge_time = None \/ c.fill_time = None)
    \/ c.action = "purge" /\ c.purge_time = None
    \/ c.action = "fill" /\ c.fill_time = None

\* C36: a Config without thermistors, not interactive and without the
\* time its action needs is rejected with a ValueError.
C36_ConfigGate ==
    (/\ m.pc \in {"valid", "ValueError"}
     /\ ~m.use_thermistors /\ m.interactive = "no" /\ TimeMissing(m))
    => m.pc = "ValueError"

\* -------------------------------------- start_monitoring without samples
MaxStalls == 4          \* rounds in which read_thermistors() fails
MaxWatchedOpen == 6     \* max_fill_time of the watched fill

\* A fill of one camera on thermistor feedback, at the point where
\* fill_runner calls fill(): lock, check and sweep are behind it.  The
\* handler has no alerts route, so monitor_alerts has returned at once.
WatcherConfig ==
    [FillConfig EXCEPT !.max_open = MaxWatchedOpen, !.max_events = MaxStalls]

InitWatcher ==
    /\ now = Epoch /\ events = 0
    /\ estop = FALSE /\ nps_up = TRUE
    /\ nps = [on |-> [v \in Valves |-> FALSE],
              script |-> [v \in Valves |-> None], next |-> 1]
    /\ offLog = [v \in Valves |-> {"presweep"}]
    /\ vh = [v \in Valves |-> NewValveHandler]
    /\ th = [v \in Valves |-> NoThermistor]
    /\ tmo = [v \in Valves |-> NoTask]
    /\ sf = [v \in Valves |-> NoTask]
    /\ mon = [pc |-> "none", wake |-> 0, has |-> FALSE, ts |-> 0, act |-> {}]
    /\ stp = [c \in Callers |-> IdleStop]
    /\ al = [pc |-> "none", wake |-> 0, n_failed |-> 0, o2_errors |-> 0]
    /\ h = [failed |-> FALSE, aborted |-> FALSE, event_times |-> NewEventTimes]
    /\ gh = [v \in Valves |-> [streak |-> 0, reset |-> FALSE]]
    /\ cfg = WatcherConfig
    /\ m = [NewMain EXCEPT !.pc = "fill_pre", !.locked = TRUE, !.signals = TRUE,
                           !.check = "pass", !.presweep = "ok"]
    /\ lk = [file |-> TRUE, pc |-> [p \in Procs |-> "off"],
             clear |-> [p \in Procs |-> FALSE]]

\* _monitor: read_thermistors() raises, the warning is issued and no
\* data point is appended in this interval.
MonStall ==
    /\ Alive
    /\ mon.pc = "sleep" /\ mon.wake <= now
    /\ events < cfg.max_events
    /\ events' = events + 1
    /\ mon' = [mon EXCEPT !.wake = now + MonitoringInterval]
    /\ UNCHANGED <<now, estop, nps_up, cfg, nps, offLog, vh, th, tmo, sf, stp,
                   al, h, m, lk, gh>>

NextWatcher ==
    \/ FillBegin
    \/ \E v \in Valves : SfOpenIssue(v)
    \/ \E v \in Valves : SfOpenReply(v)
    \/ \E v \in Valves : SfWake(v)
    \/ \E v \in Valves : SfDone(v)
    \/ MonSample
    \/ MonStall
    \/ \E v \in Valves : ThTick(v)
    \/ \E v \in Valves : ThCloseReply(v)
    \/ \E v \in Valves : TmoFire(v)
    \/ \E v \in Valves : TmoCloseReply(v)
    \/ Tick

SpecWatcher == InitWatcher /\ [][NextWatcher]_vars

\* The latest data point has a timestamp the watcher has not consumed.
Unconsumed(v) == mon.has /\ mon.ts # th[v].last_seen

\* C39: the watcher leaves its loop, to close the valve or to report
\* done, only on a tick at which the latest data point is unconsumed and
\* shows the thermistor active; a tick without an unconsumed data point
\* touches neither the valve nor its handler.
C39_FreshSamplesOnly ==
    [][\A v \in Valves :
          /\ (th[v].pc = "sleep" /\ th'[v].pc \in {"closing", "done", "failed"})
                => Unconsumed(v) /\ v \in mon.act
          /\ (th[v].pc = "sleep" /\ th'[v].pc = "sleep" /\ th'[v] # th[v]
               /\ ~Unconsumed(v))
                => /\ vh'[v] = vh[v] /\ offLog'[v] = offLog[v]
                   /\ nps' = nps /\ tmo'[v] = tmo[v]]_vars

\* The last data point showed the thermistor active, none has come for
\* three seconds and more, the watcher has just ticked and the valve is
\* still open.
C39_Witness ==
    /\ th["c1"].pc = "sleep" /\ th["c1"].wake > now
    /\ mon.has /\ "c1" \in mon.act /\ mon.ts = th["c1"].last_seen
    /\ now - mon.ts >= 3
    /\ th["c1"].active_start_time > 0
    /\ now - th["c1"].active_start_time > cfg.required_active
    /\ now - th["c1"].start_time > cfg.min_open
    /\ nps.on["c1"] /\ vh["c1"].close_time = None

====
